---- MODULE Spec2Model ----
(***************************************************************************)
(* A model of the simulation core of geoffb/js13k-2021 (the game loop of   *)
(* src/unnamed/part_002): the entity/component store, the spatial hash,    *)
(* the physics/collision system and the game-flow sequencer.               *)
(*                                                                         *)
(* Numbers.  The program computes in floating point tile units.  The model *)
(* computes in exact fixed point: one tile is UNIT model units, chosen so  *)
(* that every half size, every velocity * dt and every halved overlap that *)
(* occurs within the bounds is an integer.  Times are in hundredths of a   *)
(* second.  Rounding of IEEE doubles is not modelled.                      *)
(*                                                                         *)
(* References.  spawn_prefab_entity copies a component record field by     *)
(* field (Object.assign), so the contact array of a body, body.c, is       *)
(* copied as a reference.  The model keeps the arrays in heap and the      *)
(* reference in the field c.                                               *)
(*                                                                         *)
(* Steps.  A step is one whole call of system_game, system_physics,        *)
(* spawn_prefab_entity, remove_entity or state_wander.e.  The systems that *)
(* decide when to spawn, despawn or change a velocity (input, hazard,      *)
(* mortal, ttl, behavior) are represented by these calls with inputs from  *)
(* small sets; spawns and velocity changes are offered until the first     *)
(* physics tick of a run only, which bounds the runs.                      *)
(*                                                                         *)
(* Specifications.  Spec starts after main().  SpecLate starts during play *)
(* after 100 ids have been handed out.  SpecScenario starts with one body  *)
(* next to one wall tile and applies system_physics.  SpecBehavior starts  *)
(* during play with the player and one slime and applies system_behavior.  *)
(* SpecFrame starts during play and runs frame(): the callback's position  *)
(* in its loop over systems is state (sys_index), and a step is one call   *)
(* of a system from that loop.                                             *)
(***************************************************************************)
EXTENDS Integers, Sequences, FiniteSets, TLC

VARIABLES
    game_state,      \* part_002:341  high-level game phase
    game_timer,      \* part_002:344  time until a state change (1/100 s)
    map_width,       \* part_002:364
    map_height,      \* part_002:365
    map_tiles,       \* part_002:366  sequence of tile codes, index i is element i+1
    spatial_width,   \* part_002:435
    spatial_height,  \* part_002:436
    spatial_tiles,   \* part_002:437  sequence of buckets (sequences of ids)
    camera_x,        \* part_002:369
    camera_y,        \* part_002:370
    player_id,       \* part_002:420
    components,      \* part_002:423  kind -> (entity id -> record)
    heap,            \* the contact arrays, by reference (see PREFABS, field c)
    next_entity_id,  \* part_002:426
    last_frame,      \* part_002:350  time of the last frame (1/100 s)
    frame_dt,        \* part_002:1492 dt of the frame that is running
    sys_index,       \* part_002:1497 position of frame() in systems, 0: not in the loop
    hist,            \* history: what the last operation was and what it saw
    flog,            \* history of frame() and of the systems it has called
    ray,             \* part_002:707 the locals of the call of raycast in progress
    camera_facing,   \* part_002:371 camera_facing_x, camera_facing_y
    depth_buffer     \* part_002:358 what the wall pass has written, by column

vars == <<game_state, game_timer, map_width, map_height, map_tiles,
          spatial_width, spatial_height, spatial_tiles, camera_x, camera_y,
          player_id, components, heap, next_entity_id, last_frame, frame_dt,
          sys_index, hist, flog, ray, camera_facing, depth_buffer>>

\* What frame() and the calls below it own
frameVars == <<last_frame, frame_dt, sys_index, flog, ray, depth_buffer>>

----------------------------------------------------------------------------
(* Bounds of the model *)

\* Ids handed out in one run: spawning stops when that many were returned.
MaxId == 3
\* Physics ticks in one run.
MaxTicks == 2
\* Enemies placed by one call of spawn_hazards.
MaxHazards == 1
\* Calls of remove_entity in one run.
MaxRemoves == 1
\* Calls of frame() in one run.
MaxFrames == 2
\* The generated map is 2 * MapHalf + 1 tiles wide and high, with its centre
\* tile at (MapHalf, MapHalf); the program generates 21 x 21 (half 10).
MapHalf == 3

(* Fixed point *)

\* Model units per tile: 200 makes the sizes and speed * dt whole, the power
\* of two leaves room for the halvings of the pair resolution.
UNIT == 200 * 64

\* Frame times offered to the systems, in 1/100 s (all below the 0.2 s limit
\* of frame()).
DTs == {10}

\* Times between two frames, in 1/100 s: the frame times, the limit of
\* frame() itself and a time above it.
FrameDeltas == DTs \cup {20, 30}

----------------------------------------------------------------------------
(* Program constants *)

SPATIAL_TILE_SIZE == 2
GROUP_PLAYER == 1
GROUP_ENEMY == 2
GROUP_ENVIRONMENT == 3
\* The grid width hash_ids passes to idx.
HASH_WIDTH == 100

\* idx(x, y, w)
idx(x, y, w) == y * w + x

\* A variant of hash_ids that does not order its arguments (C9 depends on the
\* ordering)
hash_ids_as_given(a, b) == idx(a, b, HASH_WIDTH)

\* hash_ids(a, b)
hash_ids(a, b) == IF a < b THEN idx(a, b, HASH_WIDTH) ELSE idx(b, a, HASH_WIDTH)

COLLISION_GROUPS ==
    { hash_ids(GROUP_PLAYER, GROUP_ENEMY),
      hash_ids(GROUP_ENEMY, GROUP_ENEMY),
      hash_ids(GROUP_PLAYER, GROUP_ENVIRONMENT),
      hash_ids(GROUP_ENEMY, GROUP_ENVIRONMENT),
      hash_ids(GROUP_ENVIRONMENT, GROUP_ENVIRONMENT) }

\* sign(n)
sign(n) == IF n > 0 THEN 1 ELSE IF n = 0 THEN 0 ELSE -1

Min(a, b) == IF a < b THEN a ELSE b
Max(a, b) == IF a > b THEN a ELSE b

\* A body's bb before update_bounding_box first creates it (undefined in the
\* program; nothing reads it before update_bounding_box has written it).
NoBB == [x |-> 0, y |-> 0, w |-> 0, h |-> 0]

\* A body record of a prefab.  c is the REFERENCE to the prefab's contact
\* array (heap[c] is the array); t is 0 where the prefab has no t; e and bb
\* are absent in the prefab and written by system_physics.
PrefabBody(w, h, b, t, g, ref) ==
    [w |-> w, h |-> h, vx |-> 0, vy |-> 0, b |-> b, t |-> t, g |-> g,
     c |-> ref, e |-> 0, bb |-> NoBB]

PrefabPos == [x |-> 0, y |-> 0, f |-> 0]

\* PREFABS: prefab key -> component kind -> record.
PREFABS ==
    [player |->
        [pos |-> PrefabPos,
         body |-> PrefabBody((2 * UNIT) \div 5, (2 * UNIT) \div 5, 0, 0, GROUP_PLAYER, "player"),
         pla |-> [w |-> "pistol", c |-> 0],
         mor |-> [h |-> 3]],
     dummy |->
        [pos |-> PrefabPos,
         body |-> PrefabBody(UNIT \div 2, UNIT \div 2, 1, 0, GROUP_ENEMY, "dummy"),
         mor |-> [h |-> 3],
         sprite |-> [i |-> 1],
         sig |-> [n |-> 3, f |-> 7],
         tar |-> [none |-> 0],
         beh |-> [m |-> "dummy", s |-> "undefined", e |-> 0]],
     slime |->
        [pos |-> PrefabPos,
         body |-> PrefabBody((4 * UNIT) \div 5, (4 * UNIT) \div 5, 1, 0, GROUP_ENEMY, "slime"),
         mor |-> [h |-> 6],
         sprite |-> [i |-> 6],
         ani |-> [f |-> <<(<<6, 7>>), (<<10>>), (<<7>>)>>, i |-> 0, d |-> 25, e |-> 0, a |-> 0],
         beh |-> [m |-> "slime", s |-> "undefined", e |-> 0]],
     slime2 |->
        [pos |-> PrefabPos,
         body |-> PrefabBody((4 * UNIT) \div 5, (4 * UNIT) \div 5, 1, 0, GROUP_ENEMY, "slime2"),
         mor |-> [h |-> 6],
         sprite |-> [i |-> 6],
         ani |-> [f |-> <<(<<11, 12>>), (<<13>>), (<<12>>)>>, i |-> 0, d |-> 25, e |-> 0, a |-> 0],
         beh |-> [m |-> "slime", s |-> "undefined", e |-> 0]],
     bullet |->
        [pos |-> PrefabPos,
         body |-> PrefabBody(UNIT \div 4, UNIT \div 4, 0, 1, GROUP_PLAYER, "bullet"),
         haz |-> [d |-> 1, o |-> 1],
         sprite |-> [i |-> 2]],
     boom |->
        [pos |-> PrefabPos,
         sprite |-> [i |-> 3],
         ani |-> [f |-> <<(<<3, 4, 5>>)>>, i |-> 0, d |-> 10, e |-> 0, a |-> 0],
         ttl |-> [d |-> 30]],
     rift |->
        [pos |-> PrefabPos,
         sprite |-> [i |-> 8],
         ani |-> [f |-> <<(<<8, 9>>)>>, i |-> 0, d |-> 25, e |-> 0, a |-> 0]],
     tnt |->
        [pos |-> PrefabPos,
         body |-> PrefabBody(UNIT \div 2, UNIT \div 2, 0, 0, GROUP_ENVIRONMENT, "tnt"),
         mor |-> [h |-> 2],
         sprite |-> [i |-> 1]],
     dmg_enemy |->
        [pos |-> PrefabPos,
         body |-> PrefabBody(UNIT, UNIT, 0, 1, GROUP_ENEMY, "dmg_enemy"),
         haz |-> [d |-> 1, o |-> 1],
         ttl |-> [d |-> 25]]]

\* The contact arrays that exist: one literal [] per prefab with a body.
PrefabRefs == {k \in DOMAIN PREFABS : "body" \in DOMAIN PREFABS[k]}

----------------------------------------------------------------------------
(* Entity/component store *)

NoGroup == [i \in {} |-> 0]

\* get_entity_component(id, key) !== undefined
has_entity_component(C, id, key) ==
    key \in DOMAIN C /\ id \in DOMAIN C[key]

\* What a lookup that finds nothing returns: undefined
Undefined == [undefined |-> TRUE]

\* get_entity_component(id, key), on the store C
get_entity_component(C, id, key) ==
    IF key \in DOMAIN C
    THEN IF id \in DOMAIN C[key] THEN C[key][id] ELSE Undefined
    ELSE Undefined

\* add_entity_component(id, key, data), on the store C
add_entity_component(C, id, key, data) ==
    LET group == IF key \in DOMAIN C THEN C[key] ELSE NoGroup
        added == [i \in DOMAIN group \cup {id} |-> IF i = id THEN data ELSE group[i]]
    IN [k \in DOMAIN C \cup {key} |-> IF k = key THEN added ELSE C[k]]

\* A variant of remove_entity that deletes the id from the bodies only (C10
\* depends on the deletion from every mapping)
remove_entity_body_only(C, id) ==
    [k \in DOMAIN C |->
        [i \in DOMAIN C[k] \ (IF k = "body" THEN {id} ELSE {}) |-> C[k][i]]]

\* A variant of remove_entity that deletes the id from the positions only
\* (C27 depends on the deletion of the body with the position)
remove_entity_pos_only(C, id) ==
    [k \in DOMAIN C |->
        [i \in DOMAIN C[k] \ (IF k = "pos" THEN {id} ELSE {}) |-> C[k][i]]]

\* remove_entity(id), on the store C
remove_entity(C, id) ==
    [k \in DOMAIN C |-> [i \in DOMAIN C[k] \ {id} |-> C[k][i]]]

\* A variant of clear_entities that leaves the mappings as they are (C36
\* depends on the clearing)
clear_entities_kept(C) == C

\* clear_entities(): every key of components is deleted
clear_entities(C) == [k \in {} |-> NoGroup]

\* The ids that are a key of some component mapping of C.
EntityIds(C) == UNION {DOMAIN C[k] : k \in DOMAIN C}

\* The component copy of spawn_prefab_entity: Object.assign({}, record) copies
\* the fields of the record, so a field that is a reference (body.c) is copied
\* as the reference.
CopyComponent(data) == data

RECURSIVE AddPrefabComponents(_, _, _, _)
AddPrefabComponents(C, id, prefab, keys) ==
    IF keys = {} THEN C
    ELSE LET key == CHOOSE k \in keys : TRUE
         IN AddPrefabComponents(
                add_entity_component(C, id, key, CopyComponent(prefab[key])),
                id, prefab, keys \ {key})

\* A variant of OrDefault that keeps the default whatever x is (C25 depends
\* on the override)
KeepDefault(x, default) == default

\* x || pos.x
OrDefault(x, default) == IF x # 0 THEN x ELSE default

\* The last part of spawn_prefab_entity: "if (pos) { pos.x = x || pos.x; ... }"
SetSpawnPos(C, id, x, y, facing) ==
    IF has_entity_component(C, id, "pos")
    THEN [C EXCEPT !["pos"][id] =
             [x |-> OrDefault(x, @.x), y |-> OrDefault(y, @.y),
              f |-> OrDefault(facing, @.f)]]
    ELSE C

\* spawn_prefab_entity(prefabKey, x, y, facing), on the store C with the id
\* next_entity_id has: the store after the spawn.
spawn_prefab_entity(C, id, prefabKey, x, y, facing) ==
    SetSpawnPos(AddPrefabComponents(C, id, PREFABS[prefabKey], DOMAIN PREFABS[prefabKey]),
                id, x, y, facing)

----------------------------------------------------------------------------
(* Geometry *)

\* update_bounding_box(pos, body): the bb it writes
update_bounding_box(pos, body) ==
    [x |-> pos.x - body.w \div 2, y |-> pos.y - body.h \div 2,
     w |-> body.w, h |-> body.h]

\* rect_overlap(a, b)
rect_overlap(a, b) ==
    /\ a.x < b.x + b.w
    /\ a.x + a.w > b.x
    /\ a.y < b.y + b.h
    /\ a.y + a.h > b.y

\* rect_intersection(a, b, out): the rectangle it writes to out
rect_intersection(a, b) ==
    LET x1 == Min(a.x + a.w, b.x + b.w)
        x2 == Max(a.x, b.x)
        y1 == Min(a.y + a.h, b.y + b.h)
        y2 == Max(a.y, b.y)
    IN [x |-> Min(x1, x2), y |-> Min(y1, y2),
        w |-> Max(0, x1 - x2), h |-> Max(0, y1 - y2)]

\* tile_bb set to the tile (x, y): a rectangle of one tile
TileBB(x, y) == [x |-> x * UNIT, y |-> y * UNIT, w |-> UNIT, h |-> UNIT]

\* Math.floor(v) of a coordinate, in tiles
FloorTile(v) == v \div UNIT

\* Math.floor(v / SPATIAL_TILE_SIZE) of a coordinate, in buckets
FloorBucket(v) == v \div (SPATIAL_TILE_SIZE * UNIT)

\* map_tiles[index] > 0: an index outside the array reads undefined, and
\* undefined > 0 is false
TileIsWall(index) ==
    /\ index >= 0
    /\ index < Len(map_tiles)
    /\ map_tiles[index + 1] > 0

\* The ids of a component mapping in its iteration order.  A Map iterates in
\* insertion order, and ids are inserted in increasing order.
RECURSIVE IdsInOrder(_)
IdsInOrder(S) ==
    IF S = {} THEN <<>>
    ELSE LET m == CHOOSE i \in S : \A j \in S : i <= j
         IN <<m>> \o IdsInOrder(S \ {m})

\* A variant of NextLive that passes over the entry after the last one (C29
\* depends on every entry being reached)
NextLiveSkipping(mapping, last) ==
    IF {i \in DOMAIN mapping : i > last + 1} = {} THEN 0
    ELSE CHOOSE i \in DOMAIN mapping :
            i > last + 1 /\ \A j \in DOMAIN mapping : j > last + 1 => i <= j

\* "for (const [id, x] of mapping)": the id the loop goes to after the id
\* last, 0 when the loop ends (last = 0: the loop starts).  The iterator
\* of a Map goes through the entries as they are when it comes to them: an
\* entry deleted before its turn is passed over, an entry added during the
\* loop is reached; and the entries are in the order of the ids.
NextLive(mapping, last) ==
    IF {i \in DOMAIN mapping : i > last} = {} THEN 0
    ELSE CHOOSE i \in DOMAIN mapping :
            i > last /\ \A j \in DOMAIN mapping : j > last => i <= j

\* The cells (x, y) of the inclusive range ox..tx, oy..ty in the order of
\*   for (y = oy; y <= ty; y++) for (x = ox; x <= tx; x++)
CellsInOrder(ox, oy, tx, ty) ==
    IF tx < ox \/ ty < oy THEN <<>>
    ELSE LET nx == tx - ox + 1
             ny == ty - oy + 1
         IN [k \in 1..(nx * ny) |->
                [x |-> ox + ((k - 1) % nx), y |-> oy + ((k - 1) \div nx)]]

----------------------------------------------------------------------------
(* Spatial hash *)

\* clear_spatial_map()
clear_spatial_map(S) == [i \in 1..Len(S) |-> <<>>]

\* The bucket indexes insert_spatial_bounds and get_spatial_neighbors visit
\* for bb, in order, after the test index < spatial_tiles.length.
SpatialIndexes(bb, S) ==
    LET cells == CellsInOrder(FloorBucket(bb.x), FloorBucket(bb.y),
                              FloorBucket(bb.x + bb.w), FloorBucket(bb.y + bb.h))
        all == [k \in 1..Len(cells) |-> idx(cells[k].x, cells[k].y, spatial_width)]
    IN SelectSeq(all, LAMBDA i : i < Len(S))

RECURSIVE PushAll(_, _, _)
PushAll(S, indexes, id) ==
    IF indexes = <<>> THEN S
    ELSE PushAll([S EXCEPT ![Head(indexes) + 1] = Append(@, id)], Tail(indexes), id)

\* insert_spatial_bounds(id, bb), on the buckets S
insert_spatial_bounds(S, id, bb) == PushAll(S, SpatialIndexes(bb, S), id)

RECURSIVE Concat(_, _)
Concat(S, indexes) ==
    IF indexes = <<>> THEN <<>>
    ELSE S[Head(indexes) + 1] \o Concat(S, Tail(indexes))

\* get_spatial_neighbors(bb), on the buckets S
get_spatial_neighbors(S, bb) == Concat(S, SpatialIndexes(bb, S))

----------------------------------------------------------------------------
(* system_physics, per-body move phase.  m is the body being moved:          *)
(* [bb, vx, vy, e]; b is its bounce.                                         *)

\* "Constrain physical bodies to the map", X axis
ConstrainX(m, b) ==
    IF m.bb.x < 0
    THEN [m EXCEPT !.bb.x = 0, !.vx = @ * (-b), !.e = 1]
    ELSE IF m.bb.x + m.bb.w >= map_width * UNIT
    THEN [m EXCEPT !.bb.x = map_width * UNIT - m.bb.w, !.vx = @ * (-b), !.e = 1]
    ELSE m

\* "Constrain physical bodies to the map", Y axis
ConstrainY(m, b) ==
    IF m.bb.y < 0
    THEN [m EXCEPT !.bb.y = 0, !.vy = @ * (-b), !.e = 1]
    ELSE IF m.bb.y + m.bb.h >= map_height * UNIT
    THEN [m EXCEPT !.bb.y = map_height * UNIT - m.bb.h, !.vy = @ * (-b), !.e = 1]
    ELSE m

\* temp_rect.w * temp_rect.h
Area(r) == r.w * r.h

\* The cells of the detection loops whose tile is a wall, in loop order
WallCells(bb) ==
    SelectSeq(CellsInOrder(FloorTile(bb.x), FloorTile(bb.y),
                           FloorTile(bb.x + bb.w), FloorTile(bb.y + bb.h)),
              LAMBDA c : TileIsWall(idx(c.x, c.y, map_width)))

\* tiles.push({x, y, a}) for each of the wall cells
TileEntries(bb, walls) ==
    [k \in 1..Len(walls) |->
        [x |-> walls[k].x, y |-> walls[k].y,
         a |-> Area(rect_intersection(bb, TileBB(walls[k].x, walls[k].y)))]]

\* "Detect tile map collisions": the list tiles, in the order it is filled
DetectTiles(bb) == TileEntries(bb, WallCells(bb))

\* One step of the stable sort: t goes behind every tile whose area is not
\* smaller than its own.
InsertTile(sorted, t) ==
    LET before == {k \in 1..Len(sorted) : sorted[k].a >= t.a}
        n == IF before = {} THEN 0 ELSE CHOOSE k \in before : \A j \in before : j <= k
    IN SubSeq(sorted, 1, n) \o <<t>> \o SubSeq(sorted, n + 1, Len(sorted))

\* tiles.sort((a, b) => b.a - a.a): by area, largest first, stable
RECURSIVE SortTiles(_)
SortTiles(tiles) ==
    IF tiles = <<>> THEN <<>>
    ELSE InsertTile(SortTiles(SubSeq(tiles, 1, Len(tiles) - 1)), tiles[Len(tiles)])

\* A variant of PushOut that always pushes along the X axis (C6 depends on
\* the choice of the axis)
PushOutAlongX(m, b, r) ==
    IF r.w * r.h > 0
    THEN [m EXCEPT !.bb.x = @ + r.w * sign(2 * m.bb.x + m.bb.w - (2 * r.x + r.w)),
                   !.vx = @ * (-b)]
    ELSE m

\* The body of the loop "Iterate over tiles and adjust body bounding box",
\* with temp_rect = r.  The sign of (centre of bb - centre of overlap) is taken of twice the
\* difference, which has the same sign and no halves.
PushOut(m, b, r) ==
    IF Area(r) > 0
    THEN IF r.w < r.h
         THEN [m EXCEPT !.bb.x = @ + r.w * sign(2 * m.bb.x + m.bb.w - (2 * r.x + r.w)),
                        !.vx = @ * (-b)]
         ELSE [m EXCEPT !.bb.y = @ + r.h * sign(2 * m.bb.y + m.bb.h - (2 * r.y + r.h)),
                        !.vy = @ * (-b)]
    ELSE m

\* One iteration of that loop, for tile
ResolveTile(m, b, tile) == PushOut(m, b, rect_intersection(m.bb, TileBB(tile.x, tile.y)))

RECURSIVE ResolveTiles(_, _, _)
ResolveTiles(m, b, tiles) ==
    IF tiles = <<>> THEN m
    ELSE ResolveTiles(ResolveTile(m, b, Head(tiles)), b, Tail(tiles))

\* The contact list reset, body.c.length = 0: the array body.c refers to is
\* emptied.
ResetContacts(H, body) == [H EXCEPT ![body.c] = <<>>]

\* A variant of Integrate that adds the velocity without the factor dt (C7
\* depends on the distance moved in the tick)
IntegrateUnscaled(pos, body, dt) ==
    [pos EXCEPT !.x = @ + body.vx, !.y = @ + body.vy]

\* "Update body's position": pos after pos.x += body.vx * dt, pos.y likewise
Integrate(pos, body, dt) ==
    [pos EXCEPT !.x = @ + (body.vx * dt) \div 100,
                !.y = @ + (body.vy * dt) \div 100]

\* body.e = 0 and update_bounding_box(pos, body): the moving part of the body
Moving(pos, body) ==
    [bb |-> update_bounding_box(pos, body), vx |-> body.vx, vy |-> body.vy, e |-> 0]

\* "Resolve tile map collisions", for the list tiles of the detection; a wall
\* tile in the list has set body.e
ResolveDetected(m, b, tiles) ==
    IF Len(tiles) > 0
    THEN ResolveTiles([m EXCEPT !.e = 1], b, SortTiles(tiles))
    ELSE m

\* Detection and resolution of the tile map collisions
CollideTiles(m, b) == ResolveDetected(m, b, DetectTiles(m.bb))

\* The body after integration, map constraint and tile collisions
Moved(pos, body, dt) ==
    CollideTiles(ConstrainY(ConstrainX(Moving(Integrate(pos, body, dt), body),
                                       body.b), body.b),
                 body.b)

\* "Sync position to bounding box", the contact list reset and
\* insert_spatial_bounds(id, body.bb), with m the moved body
StoreMoved(W, id, body, m) ==
    [pos |->
       [W.pos EXCEPT ![id] = [@ EXCEPT !.x = m.bb.x + body.w \div 2,
                                       !.y = m.bb.y + body.h \div 2]],
     body |->
       [W.body EXCEPT ![id] = [@ EXCEPT !.bb = m.bb, !.vx = m.vx,
                                        !.vy = m.vy, !.e = m.e]],
     heap |-> ResetContacts(W.heap, body),
     spatial |-> insert_spatial_bounds(W.spatial, id, m.bb)]

\* One iteration of the first loop of system_physics, for body id, on the
\* world W = [pos, body, heap, spatial].
MoveBody(W, id, dt) ==
    StoreMoved(W, id, W.body[id], Moved(W.pos[id], W.body[id], dt))

RECURSIVE MoveBodies(_, _, _)
MoveBodies(W, ids, dt) ==
    IF ids = <<>> THEN W
    ELSE MoveBodies(MoveBody(W, Head(ids), dt), Tail(ids), dt)

----------------------------------------------------------------------------
(* system_physics, "Find colliding pairs".  F is the state of the loops:     *)
(* [checked, heap, pairs, evals]; evals is history, the pairs (id,           *)
(* neighbor_id) that got past the checked list, in order.                    *)

Range(seq) == {seq[k] : k \in 1..Len(seq)}

\* A variant of GroupsCollide without the table (C21 depends on the lookup)
GroupsCollideAlways(g1, g2) == hash_ids(g1, g2) >= 0

\* COLLISION_GROUPS.has(hash_ids(body.g, neighbor_body.g))
GroupsCollide(g1, g2) == hash_ids(g1, g2) \in COLLISION_GROUPS

\* body.c.push(neighbor_id); neighbor_body.c.push(id)
PushContacts(H, body, neighbor_id, neighbor_body, id) ==
    LET H1 == [H EXCEPT ![body.c] = Append(@, neighbor_id)]
    IN [H1 EXCEPT ![neighbor_body.c] = Append(@, id)]

\* The body of the inner loop, for body id and one neighbor_id.
VisitNeighbor(F, bodies, id, neighbor_id) ==
    IF neighbor_id = id THEN F
    ELSE LET hash == hash_ids(id, neighbor_id)
         IN IF hash \in Range(F.checked) THEN F
            ELSE LET body == bodies[id]
                     neighbor_body == bodies[neighbor_id]
                     F1 == [F EXCEPT !.checked = Append(@, hash),
                                     !.evals = Append(@, <<id, neighbor_id>>)]
                 IN IF /\ GroupsCollide(body.g, neighbor_body.g)
                       /\ rect_overlap(body.bb, neighbor_body.bb)
                    THEN [F1 EXCEPT
                            !.heap = PushContacts(@, body, neighbor_id, neighbor_body, id),
                            !.pairs = IF body.t # 1 /\ neighbor_body.t # 1
                                      THEN Append(@, <<id, neighbor_id>>)
                                      ELSE @]
                    ELSE F1

RECURSIVE VisitNeighbors(_, _, _, _)
VisitNeighbors(F, bodies, id, neighbors) ==
    IF neighbors = <<>> THEN F
    ELSE VisitNeighbors(VisitNeighbor(F, bodies, id, Head(neighbors)),
                        bodies, id, Tail(neighbors))

RECURSIVE FindPairs(_, _, _, _)
FindPairs(F, bodies, S, ids) ==
    IF ids = <<>> THEN F
    ELSE FindPairs(
            VisitNeighbors(F, bodies, Head(ids),
                           get_spatial_neighbors(S, bodies[Head(ids)].bb)),
            bodies, S, Tail(ids))

----------------------------------------------------------------------------
(* system_physics, "Resolve colliding pairs".  P = [pos, body].              *)

\* pos_a after "pos_a.x += hw * sign(pos_a.x - ix)" (X axis) or the same on
\* the Y axis, with temp_rect = r
PushedPos(pos, r) ==
    IF r.w < r.h
    THEN [pos EXCEPT !.x = @ + (r.w \div 2) * sign(pos.x - (r.x + r.w \div 2))]
    ELSE [pos EXCEPT !.y = @ + (r.h \div 2) * sign(pos.y - (r.y + r.h \div 2))]

\* body_a after "body_a.vx *= -body_a.b" (X axis) or the same on the Y axis
Bounced(body, r) ==
    IF r.w < r.h
    THEN [body EXCEPT !.vx = @ * (-body.b)]
    ELSE [body EXCEPT !.vy = @ * (-body.b)]

\* A variant of Separate without the two calls of update_bounding_box (C5
\* depends on them)
SeparateStaleBB(P, a, b, r) ==
    [pos |-> [P.pos EXCEPT ![a] = PushedPos(@, r), ![b] = PushedPos(@, r)],
     body |-> [P.body EXCEPT ![a] = Bounced(@, r), ![b] = Bounced(@, r)]]

\* The separation of a and b, with temp_rect = r, and the two calls of
\* update_bounding_box
Separate(P, a, b, r) ==
    [pos |-> [P.pos EXCEPT ![a] = PushedPos(@, r), ![b] = PushedPos(@, r)],
     body |-> [P.body EXCEPT
                 ![a] = [Bounced(@, r) EXCEPT
                            !.bb = update_bounding_box(PushedPos(P.pos[a], r), @)],
                 ![b] = [Bounced(@, r) EXCEPT
                            !.bb = update_bounding_box(PushedPos(P.pos[b], r), @)]]]

\* The body of the loop, for the pair [a, b].
ResolvePair(P, a, b) ==
    Separate(P, a, b, rect_intersection(P.body[a].bb, P.body[b].bb))

RECURSIVE ResolvePairs(_, _)
ResolvePairs(P, pairs) ==
    IF pairs = <<>> THEN P
    ELSE ResolvePairs(ResolvePair(P, Head(pairs)[1], Head(pairs)[2]), Tail(pairs))

\* What the loop did, pair by pair: the pair, and the position and body of
\* each of the two as the loop body found them (before) and left them (after)
PairStep(a, b, P, Q) ==
    [a |-> a, b |-> b,
     before |-> [pos_a |-> P.pos[a], pos_b |-> P.pos[b],
                 body_a |-> P.body[a], body_b |-> P.body[b]],
     after |-> [pos_a |-> Q.pos[a], pos_b |-> Q.pos[b],
                body_a |-> Q.body[a], body_b |-> Q.body[b]]]

RECURSIVE ResolveSteps(_, _)
ResolveSteps(P, pairs) ==
    IF pairs = <<>> THEN <<>>
    ELSE <<PairStep(Head(pairs)[1], Head(pairs)[2], P,
                    ResolvePair(P, Head(pairs)[1], Head(pairs)[2]))>>
         \o ResolveSteps(ResolvePair(P, Head(pairs)[1], Head(pairs)[2]), Tail(pairs))

----------------------------------------------------------------------------
(* system_physics(dt) as a whole, on the store C, the contact arrays H and   *)
(* the buckets S.  The result holds the three after the tick and, as         *)
(* history, the bounding boxes the narrow phase saw (mid), the pairs it      *)
(* evaluated (evals), the pairs it resolved (pairs) and what the resolution  *)
(* did to each (steps).                                                      *)

\* What the tick leaves, from the world W1 after the first loop, the loop
\* state F after "Find colliding pairs" and P after "Resolve colliding pairs"
PhysicsOutcome(C, W1, F, P) ==
    [components |-> [C EXCEPT !["pos"] = P.pos, !["body"] = P.body],
     heap |-> F.heap,
     spatial |-> W1.spatial,
     mid |-> [i \in DOMAIN W1.body |-> W1.body[i].bb],
     evals |-> F.evals,
     pairs |-> F.pairs,
     steps |-> ResolveSteps([pos |-> W1.pos, body |-> W1.body], F.pairs)]

\* "Resolve colliding pairs" and what follows
PhysicsResolve(C, W1, F) ==
    PhysicsOutcome(C, W1, F,
                   ResolvePairs([pos |-> W1.pos, body |-> W1.body], F.pairs))

\* "Find colliding pairs" and what follows
PhysicsFind(C, W1) ==
    PhysicsResolve(C, W1,
                   FindPairs([checked |-> <<>>, heap |-> W1.heap, pairs |-> <<>>,
                              evals |-> <<>>],
                             W1.body, W1.spatial, IdsInOrder(DOMAIN C["body"])))

PhysicsResult(C, H, S, dt) ==
    PhysicsFind(C,
                MoveBodies([pos |-> C["pos"], body |-> C["body"], heap |-> H,
                            spatial |-> clear_spatial_map(S)],
                           IdsInOrder(DOMAIN C["body"]), dt))

----------------------------------------------------------------------------
(* Maps *)

MapSize == 2 * MapHalf + 1

\* MAP_GENERATORS[g](x, y, w, h, cx, cy); distances are compared squared
MapGenerator(g, x, y, w, h, cx, cy) ==
    LET d2 == (x - cx) * (x - cx) + (y - cy) * (y - cy)
    IN CASE g = 0 -> x % 4 = 0 /\ y % 4 = 0
         [] g = 1 -> /\ (d2 > 16 /\ d2 < 49) \/ d2 > 121
                     /\ x # cx
                     /\ y # cy
         [] g = 2 -> /\ (x > 3 /\ x < cx - 2) \/ (x > cx + 2 /\ x < w - 4)
                     /\ y > 2
                     /\ y < h - 3

Generators == {0, 1, 2}

\* Math.ceil(n / SPATIAL_TILE_SIZE)
CeilBucket(n) == (n + SPATIAL_TILE_SIZE - 1) \div SPATIAL_TILE_SIZE

\* The buckets init_map(width, height) leaves
InitSpatial(width, height) ==
    [i \in 1..(CeilBucket(width) * CeilBucket(height)) |-> <<>>]

\* The tiles generate_map(width, height) writes with generator g
GeneratedTiles(g, width, height) ==
    [k \in 1..(width * height) |->
        IF MapGenerator(g, (k - 1) % width, (k - 1) \div width, width, height,
                        width \div 2, height \div 2)
        THEN 1 ELSE 0]

\* The tiles of spawn_hazards that may get an enemy: open, and further than 4
\* from the centre tile.  As indexes i of map_tiles.
HazardTiles(tiles, width, height) ==
    {i \in 0..(width * height - 1) :
        /\ tiles[i + 1] = 0
        /\ LET dx == (i % width) - width \div 2
               dy == (i \div width) - height \div 2
           IN dx * dx + dy * dy > 16}

\* What one run of spawn_hazards may place: sequences of at most n
\* [i, prefab], by increasing tile index i (the order of its loop).
RECURSIVE HazardPicks(_, _)
HazardPicks(eligible, n) ==
    IF n = 0 THEN {<<>>}
    ELSE LET shorter == HazardPicks(eligible, n - 1)
         IN shorter \cup
            {Append(s, [i |-> i, prefab |-> p]) :
                <<s, i, p>> \in
                    {t \in shorter \X eligible \X {"slime2", "slime"} :
                        /\ Len(t[1]) = n - 1
                        /\ \A k \in 1..Len(t[1]) : t[1][k].i < t[2]}}

\* The spawns of spawn_hazards for the picks, on the store C from id on
RECURSIVE SpawnHazards(_, _, _, _)
SpawnHazards(C, id, picks, width) ==
    IF picks = <<>> THEN C
    ELSE LET pick == Head(picks)
             x == (pick.i % width) * UNIT + UNIT \div 2
             y == (pick.i \div width) * UNIT + UNIT \div 2
         IN SpawnHazards(spawn_prefab_entity(C, id, pick.prefab, x, y, 0),
                         id + 1, Tail(picks), width)

----------------------------------------------------------------------------
(* History.  hist records what the last operation was (op), for              *)
(* system_physics what it saw (dt, the store before it: pre, and the fields  *)
(* mid, evals, pairs of PhysicsResult), and since the initial state: the     *)
(* number of physics ticks, the number of remove_entity calls, every id      *)
(* spawn_prefab_entity has returned, in order, and every id that was         *)
(* despawned.                                                                *)
(* The fields pre and events are described with HistEvents, the field        *)
(* visited with HistPass.                                                    *)

NoPhysics ==
    [dt |-> 0, pre |-> <<>>, mid |-> <<>>, evals |-> <<>>, pairs |-> <<>>,
     steps |-> <<>>]

HistAfter(op, phys, ticks, new_ids, gone) ==
    [op |-> op, phys |-> phys, ticks |-> ticks,
     removes |-> hist.removes + (IF op = "remove_entity" THEN 1 ELSE 0),
     returned |-> hist.returned \o new_ids,
     despawned |-> hist.despawned \cup gone,
     dt |-> 0, pre |-> <<>>, events |-> <<>>, visited |-> <<>>]

\* The same for a system other than system_physics and system_game: the
\* record of the last physics tick stays, dt is the argument of the system,
\* pre is the store and the contact arrays it found, events is what it did,
\* in order.
HistEvents(op, dt, events, new_ids, gone) ==
    [HistAfter(op, hist.phys, hist.ticks, new_ids, gone) EXCEPT
        !.dt = dt,
        !.pre = [components |-> components, heap |-> heap],
        !.events = events]

\* The same for a system that is a loop over a component mapping: visited is
\* the ids the loop body has run for, in order.
HistPass(op, dt, events, new_ids, gone, visited) ==
    [HistEvents(op, dt, events, new_ids, gone) EXCEPT !.visited = visited]

\* The ids spawn_prefab_entity returns in n successive calls: next_entity_id++
RECURSIVE ReturnedIds(_, _)
ReturnedIds(from, n) ==
    IF n = 0 THEN <<>> ELSE <<from>> \o ReturnedIds(from + 1, n - 1)

\* What frame() reads when it is called (the variables the systems write)
Snapshot ==
    [game_state |-> game_state, game_timer |-> game_timer,
     components |-> components, heap |-> heap, spatial_tiles |-> spatial_tiles,
     camera_x |-> camera_x, camera_y |-> camera_y, player_id |-> player_id,
     next_entity_id |-> next_entity_id]

\* flog records the number of calls of frame() (frames), and of the last
\* call: the state it found (start), whether it ran the systems (entered),
\* the systems it has run so far, in order (ran), the store and the contact
\* arrays system_hazard found (touched) and system_mortal found (struck), and
\* what system_hazard and system_mortal did in it (hits, deaths).
NoFrameLog ==
    [frames |-> 0, start |-> <<>>, entered |-> FALSE, ran |-> <<>>,
     touched |-> <<>>, struck |-> <<>>, hits |-> <<>>, deaths |-> <<>>]

\* No call of raycast is in progress
NoRay == [pc |-> "idle"]

\* Math.cos(f) and Math.sin(f)
Cos(f) == CASE f % 400 = 0 -> 1 [] f % 400 = 200 -> -1 [] f % 400 \in {100, 300} -> 0
Sin(f) == CASE f % 400 = 100 -> 1 [] f % 400 = 300 -> -1 [] f % 400 \in {0, 200} -> 0

\* set_camera(x, y, facing_x, facing_y) as far as the facing goes: the
\* facing (x, y), turned on by TAU * 0.00625 * turned / 100 (the title
\* states turn the camera by TAU * 0.00625 * dt a frame).  The plane is
\* (-y, x) * CAMERA_PLANE_LENGTH of it.
Facing(x, y, turned) == [x |-> x, y |-> y, turned |-> turned]

\* "new Array(CAMERA_WIDTH)": no column is written
NoDepths == [written |-> FALSE]

\* depth_buffer when system_render_map has run with the camera at (x, y)
\* and facing: column c holds the d of the ray of column c from there, on
\* the map as it is (system_game alone writes map_tiles, and no frame
\* calls it between the wall pass and the sprites)
DepthsFrom(x, y, facing) == [written |-> TRUE, x |-> x, y |-> y, facing |-> facing]

\* main() has set last_frame and has called frame(last_frame), a frame with
\* dt = 0 that changes nothing the model holds; no frame is running.  In a
\* game in play system_camera has left the camera facing as the player does
\* and system_render_map has left the walls seen from the camera.
FrameIdle ==
    /\ last_frame = 0
    /\ frame_dt = 0
    /\ sys_index = 0
    /\ flog = NoFrameLog
    /\ ray = NoRay
    /\ camera_facing = IF game_state = "play"
                          /\ has_entity_component(components, player_id, "pos")
                       THEN Facing(Cos(components["pos"][player_id].f),
                                   Sin(components["pos"][player_id].f), 0)
                       ELSE Facing(1, 0, 0)
    /\ depth_buffer = IF game_state = "load" THEN NoDepths
                      ELSE DepthsFrom(camera_x, camera_y, camera_facing)

----------------------------------------------------------------------------
(* The state after main() *)

Init ==
    /\ game_state = "load"
    /\ game_timer = 50
    /\ map_width = MapSize
    /\ map_height = MapSize
    /\ \E g \in Generators : map_tiles = GeneratedTiles(g, MapSize, MapSize)
    /\ spatial_width = CeilBucket(MapSize)
    /\ spatial_height = CeilBucket(MapSize)
    /\ spatial_tiles = InitSpatial(MapSize, MapSize)
    /\ camera_x = (MapSize \div 2) * UNIT + UNIT \div 2
    /\ camera_y = (MapSize \div 2) * UNIT + UNIT \div 2
    /\ player_id = 0
    /\ components = [k \in {} |-> NoGroup]
    /\ heap = [r \in PrefabRefs \cup {"scenario"} |-> <<>>]
    /\ next_entity_id = 1
    /\ hist = [op |-> "main", phys |-> NoPhysics, ticks |-> 0, removes |-> 0,
               returned |-> <<>>, despawned |-> {}, dt |-> 0, pre |-> <<>>,
               events |-> <<>>, visited |-> <<>>]
    /\ FrameIdle

----------------------------------------------------------------------------
(* system_game(dt): the game-flow sequencer.  space is key_down(32).  The    *)
(* UI texts, the overlay and their tweens are not part of the model.         *)

\* game_timer after "if (game_timer > 0) game_timer -= dt"
TimerAfter(dt) == IF game_timer > 0 THEN game_timer - dt ELSE game_timer

\* hist after system_game(dt): pre is what the switch found, the state, the
\* timer after "game_timer -= dt" and key_down(32) where it was read
HistGame(dt, space, new_ids, gone) ==
    [HistAfter("system_game", NoPhysics, hist.ticks, new_ids, gone) EXCEPT
        !.dt = dt,
        !.pre = [game_state |-> game_state, game_timer |-> TimerAfter(dt),
                 space |-> game_state \in {"title", "lost"} /\ space]]

\* A variant of GameFlow that leaves "load" whatever the timer is (C35
\* depends on the test)
GameFlowUntimed(dt, space) ==
    LET timer == TimerAfter(dt)
        stay == [state |-> game_state, timer |-> timer]
    IN CASE game_state = "load" -> [state |-> "load_outro", timer |-> timer + 100]
         [] game_state = "load_outro" ->
              IF timer <= 0 THEN [state |-> "title_intro", timer |-> timer + 50] ELSE stay
         [] game_state = "title_intro" ->
              IF timer <= 0 THEN [state |-> "title", timer |-> timer] ELSE stay
         [] game_state = "title" ->
              IF space THEN [state |-> "title_outro", timer |-> timer + 50] ELSE stay
         [] game_state = "play" ->
              IF ~has_entity_component(components, player_id, "pos")
              THEN [state |-> "play_outro", timer |-> timer + 200] ELSE stay
         [] game_state = "lost_intro" ->
              IF timer <= 0 THEN [state |-> "lost", timer |-> timer] ELSE stay
         [] game_state = "lost" ->
              IF space THEN [state |-> "lost_outro", timer |-> timer + 50] ELSE stay
         [] OTHER -> stay

\* The cases of the switch that change game_state and game_timer only.
GameFlow(dt, space) ==
    LET timer == TimerAfter(dt)
        stay == [state |-> game_state, timer |-> timer]
    IN CASE game_state = "load" ->
              IF timer <= 0 THEN [state |-> "load_outro", timer |-> timer + 100] ELSE stay
         [] game_state = "load_outro" ->
              IF timer <= 0 THEN [state |-> "title_intro", timer |-> timer + 50] ELSE stay
         [] game_state = "title_intro" ->
              IF timer <= 0 THEN [state |-> "title", timer |-> timer] ELSE stay
         [] game_state = "title" ->
              IF space THEN [state |-> "title_outro", timer |-> timer + 50] ELSE stay
         [] game_state = "play" ->
              IF ~has_entity_component(components, player_id, "pos")
              THEN [state |-> "play_outro", timer |-> timer + 200] ELSE stay
         [] game_state = "lost_intro" ->
              IF timer <= 0 THEN [state |-> "lost", timer |-> timer] ELSE stay
         [] game_state = "lost" ->
              IF space THEN [state |-> "lost_outro", timer |-> timer + 50] ELSE stay
         [] OTHER -> stay

system_game_flow(dt, space) ==
    /\ game_state \in {"load", "load_outro", "title_intro", "title", "play",
                       "lost_intro", "lost"}
       \/ TimerAfter(dt) > 0
    /\ game_state' = GameFlow(dt, space).state
    /\ game_timer' = GameFlow(dt, space).timer
    /\ hist' = HistGame(dt, space, <<>>, {})
    /\ UNCHANGED <<map_width, map_height, map_tiles, spatial_width, spatial_height,
                   spatial_tiles, camera_x, camera_y, camera_facing, player_id, components, heap,
                   next_entity_id>>

\* case "title_outro", timer run out: the player and the hazards are spawned
system_game_start(dt) ==
    /\ game_state = "title_outro"
    /\ TimerAfter(dt) <= 0
    /\ Len(hist.returned) < MaxId
    /\ \E picks \in HazardPicks(HazardTiles(map_tiles, map_width, map_height), MaxHazards) :
          /\ Len(hist.returned) + 1 + Len(picks) <= MaxId
          /\ components' =
                SpawnHazards(
                    spawn_prefab_entity(components, next_entity_id, "player",
                                        camera_x, camera_y, 0),
                    next_entity_id + 1, picks, map_width)
          /\ next_entity_id' = next_entity_id + 1 + Len(picks)
          /\ hist' = HistGame(dt, FALSE, ReturnedIds(next_entity_id, 1 + Len(picks)), {})
    /\ game_state' = "play"
    /\ game_timer' = TimerAfter(dt)
    /\ player_id' = next_entity_id
    /\ UNCHANGED <<map_width, map_height, map_tiles, spatial_width, spatial_height,
                   spatial_tiles, camera_x, camera_y, camera_facing, heap>>

\* case "play_outro", timer run out: clear_entities()
system_game_lost(dt) ==
    /\ game_state = "play_outro"
    /\ TimerAfter(dt) <= 0
    /\ components' = clear_entities(components)
    /\ game_state' = "lost_intro"
    /\ game_timer' = TimerAfter(dt) + 100
    /\ hist' = HistGame(dt, FALSE, <<>>, EntityIds(components))
    /\ UNCHANGED <<map_width, map_height, map_tiles, spatial_width, spatial_height,
                   spatial_tiles, camera_x, camera_y, camera_facing, player_id, heap,
                   next_entity_id>>

\* case "lost_outro", timer run out: generate_map(21, 21) and set_camera
system_game_restart(dt) ==
    /\ game_state = "lost_outro"
    /\ TimerAfter(dt) <= 0
    /\ game_state' = "load"
    /\ game_timer' = 50
    /\ map_width' = MapSize
    /\ map_height' = MapSize
    /\ \E g \in Generators : map_tiles' = GeneratedTiles(g, MapSize, MapSize)
    /\ spatial_width' = CeilBucket(MapSize)
    /\ spatial_height' = CeilBucket(MapSize)
    /\ spatial_tiles' = InitSpatial(MapSize, MapSize)
    /\ camera_x' = (MapSize \div 2) * UNIT + UNIT \div 2
    /\ camera_y' = (MapSize \div 2) * UNIT + UNIT \div 2
    /\ camera_facing' = Facing(1, 0, 0)
    /\ hist' = HistGame(dt, FALSE, <<>>, {})
    /\ UNCHANGED <<player_id, components, heap, next_entity_id>>

\* system_game(dt)
system_game_dt(dt) ==
    \/ \E space \in BOOLEAN : system_game_flow(dt, space)
    \/ system_game_start(dt)
    \/ system_game_lost(dt)
    \/ system_game_restart(dt)

\* A call of system_game with one of the frame times
system_game == \E dt \in DTs : system_game_dt(dt) /\ UNCHANGED frameVars

----------------------------------------------------------------------------
(* Spawns and despawns by the systems that run during play *)

\* A coordinate given in twentieths of a tile
At(n) == (n * UNIT) \div 20

\* The spawns offered: prefab, and position in twentieths of a tile.  The
\* centre of the map is where the player is spawned.  The program places
\* slimes at tile centres (spawn_hazards) and they move from there
\* (state_wander, state_chase): a slime entry stands for a slime that has
\* come to that place, next to the player or next to the left map edge.
SpawnInputs ==
    LET c == 10 * MapSize
    IN { [prefab |-> "slime",     x |-> c + 8,  y |-> c],
         [prefab |-> "slime",     x |-> 8,      y |-> 50],
         [prefab |-> "slime",     x |-> 18,     y |-> 50],
         [prefab |-> "bullet",    x |-> c + 10, y |-> c],
         [prefab |-> "boom",      x |-> c,      y |-> c] }

\* spawn_prefab_entity(prefabKey, x, y, 0), called by a system during play
\* (system_input 840, system_mortal 1040, state_attack 97)
Spawn ==
    /\ game_state = "play"
    /\ hist.ticks = 0
    /\ Len(hist.returned) < MaxId
    /\ \E in \in SpawnInputs :
          components' = spawn_prefab_entity(components, next_entity_id, in.prefab,
                                            At(in.x), At(in.y), 0)
    /\ next_entity_id' = next_entity_id + 1
    /\ hist' = HistAfter("spawn_prefab_entity", NoPhysics, hist.ticks,
                         <<next_entity_id>>, {})
    /\ UNCHANGED <<game_state, game_timer, map_width, map_height, map_tiles,
                   spatial_width, spatial_height, spatial_tiles, camera_x, camera_y, camera_facing,
                   player_id, heap>>
    /\ UNCHANGED frameVars

\* remove_entity(id), called by system_hazard, system_mortal or system_ttl
Remove ==
    /\ game_state = "play"
    /\ hist.removes < MaxRemoves
    /\ \E id \in EntityIds(components) :
          /\ components' = remove_entity(components, id)
          /\ hist' = HistAfter("remove_entity", NoPhysics, hist.ticks, <<>>, {id})
    /\ UNCHANGED <<game_state, game_timer, map_width, map_height, map_tiles,
                   spatial_width, spatial_height, spatial_tiles, camera_x, camera_y, camera_facing,
                   player_id, heap, next_entity_id>>
    /\ UNCHANGED frameVars

----------------------------------------------------------------------------
(* state_wander.e(id): entering the wander state *)

\* (cos(angle), sin(angle)) in tenths, for the angles Math.random() * TAU may
\* give that have rational cosine and sine
Directions == {<<-10, 0>>, <<6, 8>>}

\* play_animation(id, index), on the animation record anim
play_animation(anim, index) ==
    IF anim.a # index
    THEN [anim EXCEPT !.a = index, !.i = anim.f[index + 1][1], !.e = 0]
    ELSE anim

state_wander_enter ==
    /\ game_state = "play"
    /\ hist.ticks = 0
    /\ "beh" \in DOMAIN components
    /\ \E id \in DOMAIN components["beh"] :
       \E dir \in Directions :
          /\ has_entity_component(components, id, "body")
          /\ has_entity_component(components, id, "ani")
          /\ components' =
                [components EXCEPT
                    !["body"][id] = [@ EXCEPT !.vx = (dir[1] * UNIT) \div 10,
                                              !.vy = (dir[2] * UNIT) \div 10],
                    !["ani"][id] = play_animation(@, 0)]
    /\ hist' = HistAfter("state_wander", NoPhysics, hist.ticks, <<>>, {})
    /\ UNCHANGED <<game_state, game_timer, map_width, map_height, map_tiles,
                   spatial_width, spatial_height, spatial_tiles, camera_x, camera_y, camera_facing,
                   player_id, heap, next_entity_id>>
    /\ UNCHANGED frameVars

----------------------------------------------------------------------------
(* Behaviors: the states, their enter hooks and the models.  An angle (pos.f,  *)
(* Math.atan2) is in 1/400 of a turn.  Cosine and sine are whole at the        *)
(* quarter turns, which is what the angle between two positions on one row or  *)
(* one column of the plane is; they are defined there only.                    *)

Abs(n) == IF n < 0 THEN -n ELSE n

\* n ** 2 for n >= 0, as <<high, low>> with n * n = high * 2^16 + low and
\* low < 2^16: the square of a distance in model units is wider than the
\* integers of the checker.
Square(n) ==
    LET rest == 2 * (n \div 256) * (n % 256) * 256 + (n % 256) * (n % 256)
    IN <<(n \div 256) * (n \div 256) + rest \div 65536, rest % 65536>>

\* The sum of two such squares
SquareSum(p, q) == <<p[1] + q[1] + (p[2] + q[2]) \div 65536, (p[2] + q[2]) % 65536>>

\* p < q for two such numbers
SquareLess(p, q) == p[1] < q[1] \/ (p[1] = q[1] /\ p[2] < q[2])

\* distance(x1, y1, x2, y2), squared
distance(x1, y1, x2, y2) == SquareSum(Square(Abs(x2 - x1)), Square(Abs(y2 - y1)))

\* entity_distance(a, b) on the store C: Infinity (inf), or the distance squared
entity_distance(C, a, b) ==
    IF ~has_entity_component(C, a, "pos") \/ ~has_entity_component(C, b, "pos")
    THEN [inf |-> TRUE, sq |-> <<0, 0>>]
    ELSE [inf |-> FALSE,
          sq |-> distance(C["pos"][a].x, C["pos"][a].y, C["pos"][b].x, C["pos"][b].y)]

\* player_distance(id), for the player P
player_distance(C, P, id) == entity_distance(C, P, id)

\* d < r and d > r for a distance d as entity_distance gives it and r in tiles
DistanceBelow(d, r) == ~d.inf /\ SquareLess(d.sq, Square(r * UNIT))
DistanceAbove(d, r) == d.inf \/ SquareLess(Square(r * UNIT), d.sq)

\* Math.atan2(dy, dx), between -200 and 200
Atan2(dy, dx) ==
    CASE dy = 0 /\ dx >= 0 -> 0
      [] dy = 0 /\ dx < 0 -> 200
      [] dx = 0 /\ dy > 0 -> 100
      [] dx = 0 /\ dy < 0 -> -100

\* play_animation(id, index) on the store C
PlayAnimation(C, id, index) == [C EXCEPT !["ani"][id] = play_animation(@, index)]

\* The hooks the states define: every state has e (enter), none has x (exit)
\* or u (update).
StateHooks ==
    [state_idle |-> {"e"}, state_wander |-> {"e"}, state_chase |-> {"e"},
     state_attack_windup |-> {"e"}, state_attack |-> {"e"}]

\* state_wander.e(id); dir is (cos(angle), sin(angle)) in tenths
state_wander_e(B, id, dir) ==
    [B EXCEPT !.components =
        PlayAnimation([@ EXCEPT !["body"][id] =
                          [@ EXCEPT !.vx = (dir[1] * UNIT) \div 10,
                                    !.vy = (dir[2] * UNIT) \div 10]],
                      id, 0)]

\* state_chase.e(id), with f = Math.atan2(delta_y, delta_x)
ChaseAlong(C, id, f) ==
    PlayAnimation([C EXCEPT !["pos"][id] = [@ EXCEPT !.f = f],
                            !["body"][id] = [@ EXCEPT !.vx = (Cos(f) * 3 * UNIT) \div 2,
                                                      !.vy = (Sin(f) * 3 * UNIT) \div 2]],
                  id, 0)

state_chase_e(B, id) ==
    IF ~has_entity_component(B.components, B.player_id, "pos")
    THEN [B EXCEPT !.components["body"][id] = [@ EXCEPT !.vx = 0, !.vy = 0]]
    ELSE [B EXCEPT !.components =
            ChaseAlong(@, id,
                       Atan2(@["pos"][B.player_id].y - @["pos"][id].y,
                             @["pos"][B.player_id].x - @["pos"][id].x))]

\* state_attack_windup.e(id)
state_attack_windup_e(B, id) ==
    [B EXCEPT !.components =
        PlayAnimation([@ EXCEPT !["body"][id] = [@ EXCEPT !.vx = 0, !.vy = 0]], id, 1)]

\* state_attack.e(id)
state_attack_e(B, id) ==
    [B EXCEPT
        !.components =
            PlayAnimation(
                spawn_prefab_entity(@, B.next_entity_id, "dmg_enemy",
                                    @["pos"][id].x + Cos(@["pos"][id].f) * UNIT,
                                    @["pos"][id].y + Sin(@["pos"][id].f) * UNIT,
                                    @["pos"][id].f),
                id, 2),
        !.next_entity_id = @ + 1,
        !.returned = Append(@, B.next_entity_id)]

\* A variant of state_idle_e that strikes again, as state_attack.e does (C38
\* depends on the attack being the only state that spawns)
state_idle_e_strikes(B, id) == state_attack_e(B, id)

\* state_idle.e(id)
state_idle_e(B, id) == [B EXCEPT !.components = PlayAnimation(@, id, 0)]

\* One entry of the history of system_behavior
BehaviorEvent(id, what, state, rule) ==
    [id |-> id, what |-> what, state |-> state, rule |-> rule]

\* "if (behavior.s.e !== undefined) behavior.s.e(id)" for the state the
\* entity is in
Enter(B, id, dir) ==
    LET state == B.components["beh"][id].s
        E == [B EXCEPT !.events = Append(@, BehaviorEvent(id, "enter", state, 0))]
    IN IF "e" \notin StateHooks[state] THEN B
       ELSE CASE state = "state_idle" -> state_idle_e(E, id)
              [] state = "state_wander" -> state_wander_e(E, id, dir)
              [] state = "state_chase" -> state_chase_e(E, id)
              [] state = "state_attack_windup" -> state_attack_windup_e(E, id)
              [] state = "state_attack" -> state_attack_e(E, id)

\* "if (behavior.s.x !== undefined) behavior.s.x(id)": no state has an exit
\* hook to run
Exit(B, id) ==
    IF "x" \notin StateHooks[B.components["beh"][id].s] THEN B
    ELSE [B EXCEPT !.events =
            Append(@, BehaviorEvent(id, "exit", B.components["beh"][id].s, 0))]

\* A duration or a condition a transition does not have
NoDuration == -1
NoCondition == [op |-> "none", r |-> 0]

Timed(from, d, to) == [f |-> from, d |-> d, c |-> NoCondition, t |-> to]
Conditional(from, op, r, to) == [f |-> from, d |-> NoDuration, c |-> [op |-> op, r |-> r], t |-> to]

\* BEHAVIORS; durations in 1/100 s, the condition c is player_distance(id)
\* op r.  The model dummy has no t, which the loop treats as no transitions.
BEHAVIORS ==
    [dummy |-> [i |-> "state_wander", t |-> <<>>],
     slime |->
        [i |-> "state_wander",
         t |-> << Timed("state_wander", 300, "state_wander"),
                  Conditional("state_wander", "<", 5, "state_chase"),
                  Timed("state_chase", 20, "state_chase"),
                  Conditional("state_chase", ">", 9, "state_wander"),
                  Conditional("state_chase", "<", 1, "state_attack_windup"),
                  Timed("state_attack_windup", 50, "state_attack"),
                  Timed("state_attack", 50, "state_idle"),
                  Timed("state_idle", 50, "state_chase") >>]]

----------------------------------------------------------------------------
(* system_behavior(dt), on B = [components, player_id, next_entity_id,       *)
(* returned, events]: returned are the ids spawn_prefab_entity has returned  *)
(* in this call, events is its history: the hooks that ran ("enter",         *)
(* "exit") and the transitions that fired ("rule", with the index of the     *)
(* transition in the model's list and the state it leads to), in order.      *)

\* "Set initial state"
InitialState(B, id, dir) ==
    IF B.components["beh"][id].s = "undefined"
    THEN Enter([B EXCEPT !.components["beh"][id] =
                    [@ EXCEPT !.s = BEHAVIORS[B.components["beh"][id].m].i, !.e = 0]],
               id, dir)
    ELSE B

\* "Increment elapsed time within this state"
Elapse(B, id, dt) == [B EXCEPT !.components["beh"][id].e = @ + dt]

\* "Evaluate transition conditions" for the transition tr
Satisfied(B, id, tr) ==
    \/ tr.d # NoDuration /\ B.components["beh"][id].e >= tr.d
    \/ /\ tr.c.op = "<"
       /\ DistanceBelow(player_distance(B.components, B.player_id, id), tr.c.r)
    \/ /\ tr.c.op = ">"
       /\ DistanceAbove(player_distance(B.components, B.player_id, id), tr.c.r)

\* The transitions of the entity's model that are from its current state and
\* whose condition is satisfied, as indexes of the list
Matching(B, id) ==
    {k \in 1..Len(BEHAVIORS[B.components["beh"][id].m].t) :
        /\ BEHAVIORS[B.components["beh"][id].m].t[k].f = B.components["beh"][id].s
        /\ Satisfied(B, id, BEHAVIORS[B.components["beh"][id].m].t[k])}

\* A variant of FirstOf that gives the last index (C12 depends on the order
\* of the scan)
LastOf(S) == CHOOSE k \in S : \A j \in S : j <= k

\* The first index of a nonempty set of indexes: the loop over model.t goes
\* in the order of the list
FirstOf(S) == CHOOSE k \in S : \A j \in S : k <= j

\* "Set new state" to the target of transition k
SetState(B, id, k) ==
    [B EXCEPT
        !.components["beh"][id] =
            [@ EXCEPT !.s = BEHAVIORS[B.components["beh"][id].m].t[k].t, !.e = 0],
        !.events =
            Append(@, BehaviorEvent(id, "rule",
                                    BEHAVIORS[B.components["beh"][id].m].t[k].t, k))]

\* The body of "if (condition)" for transition k: exit, new state, enter
Fire(B, id, k, dir) == Enter(SetState(Exit(B, id), id, k), id, dir)

\* The loop over model.t up to its break
FireFirst(B, id, dir) ==
    IF Matching(B, id) = {} THEN B ELSE Fire(B, id, FirstOf(Matching(B, id)), dir)

\* A variant of Transit whose loop goes on after a transition has fired
\* (C11 depends on the break)
TransitAgain(B, id, dir) == FireFirst(FireFirst(B, id, dir), id, dir)

\* "Evaluate state transitions"
Transit(B, id, dir) == FireFirst(B, id, dir)

\* "Trigger state update": no state has an update hook to run
Update(B, id, dt) ==
    IF "u" \notin StateHooks[B.components["beh"][id].s] THEN B
    ELSE [B EXCEPT !.events =
            Append(@, BehaviorEvent(id, "update", B.components["beh"][id].s, 0))]

\* A variant of BehaveEntity that increments the elapsed time after the
\* transitions are evaluated (C32 depends on the order)
BehaveEntityElapseLate(B, id, dt, dir) ==
    Update(Elapse(Transit(InitialState(B, id, dir), id, dir), id, dt), id, dt)

\* The body of the loop over behaviors, for entity id
BehaveEntity(B, id, dt, dir) ==
    Update(Transit(Elapse(InitialState(B, id, dir), id, dt), id, dir), id, dt)

\* The loop over behaviors from the entry after id last on
RECURSIVE BehaveAll(_, _, _, _)
RECURSIVE BehaveNext(_, _, _, _)
BehaveAll(B, last, dt, dirs) ==
    BehaveNext(B, NextLive(B.components["beh"], last), dt, dirs)

BehaveNext(B, id, dt, dirs) ==
    IF id = 0 THEN B
    ELSE BehaveAll([BehaveEntity(B, id, dt, dirs[id]) EXCEPT !.visited = Append(@, id)],
                   id, dt, dirs)

\* system_behavior(dt) on the store C, with player P and next id N; dirs
\* gives for each entity the direction Math.random() chooses if it enters
\* state_wander
BehaviorResult(C, P, N, dt, dirs) ==
    BehaveAll([components |-> C, player_id |-> P, next_entity_id |-> N,
               returned |-> <<>>, events |-> <<>>, visited |-> <<>>],
              0, dt, dirs)

\* The variables system_behavior writes, from the result R
Behaved(dt, R) ==
    /\ components' = R.components
    /\ next_entity_id' = R.next_entity_id
    /\ hist' = HistPass("system_behavior", dt, R.events, R.returned, {}, R.visited)

system_behavior_dt(dt) ==
    /\ IF "beh" \notin DOMAIN components
       THEN /\ hist' = HistEvents("system_behavior", dt, <<>>, <<>>, {})
            /\ UNCHANGED <<components, next_entity_id>>
       ELSE \E dirs \in [DOMAIN components["beh"] -> Directions] :
               Behaved(dt, BehaviorResult(components, player_id, next_entity_id, dt,
                                          dirs))
    /\ UNCHANGED <<game_state, game_timer, map_width, map_height, map_tiles,
                   spatial_width, spatial_height, spatial_tiles, camera_x, camera_y, camera_facing,
                   player_id, heap>>

\* A call of system_behavior with one of the frame times
system_behavior ==
    /\ Len(hist.returned) < MaxId
    /\ \E dt \in DTs : system_behavior_dt(dt) /\ UNCHANGED frameVars

----------------------------------------------------------------------------
(* system_hazard(), on Z = [components, events] with the contact arrays H;   *)
(* events is its history: [id, what, target] with what = "hit" (the hazard   *)
(* id has decremented the hp of target) or "remove" (the hazard id was       *)
(* despawned), in order.                                                     *)

HazardEvent(id, what, target) == [id |-> id, what |-> what, target |-> target]

\* "if (body.c.length > 0) { ... mortal.h -= hazard.d }" for hazard id, whose
\* contact array is contacts
HitFirstContact(Z, id, contacts) ==
    IF Len(contacts) > 0 /\ has_entity_component(Z.components, contacts[1], "mor")
    THEN [Z EXCEPT !.components["mor"][contacts[1]].h = @ - Z.components["haz"][id].d,
                   !.events = Append(@, HazardEvent(id, "hit", contacts[1]))]
    ELSE Z

\* "Remove hazard if it's a one shot"
RemoveOneShot(Z, id, body, contacts) ==
    IF Z.components["haz"][id].o = 1 /\ (body.e = 1 \/ Len(contacts) > 0)
    THEN [Z EXCEPT !.components = remove_entity(@, id),
                   !.events = Append(@, HazardEvent(id, "remove", 0))]
    ELSE Z

\* A variant of HazardEntity that removes no hazard (C39 depends on the
\* removal of a one-shot hazard that has touched something)
HazardEntityKept(Z, H, id) == HitFirstContact(Z, id, H[Z.components["body"][id].c])

\* The body of the loop over hazards, for hazard id
HazardEntity(Z, H, id) ==
    RemoveOneShot(HitFirstContact(Z, id, H[Z.components["body"][id].c]), id,
                  Z.components["body"][id], H[Z.components["body"][id].c])

\* The loop over hazards from the entry after id last on
RECURSIVE HazardAll(_, _, _)
RECURSIVE HazardNext(_, _, _)
HazardAll(Z, H, last) == HazardNext(Z, H, NextLive(Z.components["haz"], last))

HazardNext(Z, H, id) ==
    IF id = 0 THEN Z
    ELSE HazardAll([HazardEntity(Z, H, id) EXCEPT !.visited = Append(@, id)], H, id)

\* The ids among events with what = w
EventIds(events, w) == {events[n].id : n \in {k \in 1..Len(events) : events[k].what = w}}

system_hazard_run ==
    /\ IF "haz" \notin DOMAIN components
       THEN /\ hist' = HistEvents("system_hazard", 0, <<>>, <<>>, {})
            /\ UNCHANGED components
       ELSE LET R == HazardAll([components |-> components, events |-> <<>>,
                                visited |-> <<>>], heap, 0)
            IN /\ components' = R.components
               /\ hist' = HistPass("system_hazard", 0, R.events, <<>>,
                                   EventIds(R.events, "remove"), R.visited)
    /\ UNCHANGED <<game_state, game_timer, map_width, map_height, map_tiles,
                   spatial_width, spatial_height, spatial_tiles, camera_x, camera_y, camera_facing,
                   player_id, heap, next_entity_id>>

----------------------------------------------------------------------------
(* system_mortal(), on M = [components, next_entity_id, returned, events];   *)
(* events is its history: [id, boom, x, y] for each entity id it despawned,  *)
(* with the id of the effect it spawned and the position it spawned it at.   *)

\* A variant of MortalEntity that spawns no effect (C14 depends on the spawn)
MortalEntityNoEffect(M, id) ==
    IF M.components["mor"][id].h <= 0
    THEN [M EXCEPT !.components = remove_entity(@, id),
                   !.events = Append(@, [id |-> id, boom |-> 0,
                                         x |-> M.components["pos"][id].x,
                                         y |-> M.components["pos"][id].y])]
    ELSE M

\* The body of the loop over mortals, for entity id
MortalEntity(M, id) ==
    IF M.components["mor"][id].h <= 0
    THEN [M EXCEPT
            !.components =
                remove_entity(
                    spawn_prefab_entity(@, M.next_entity_id, "boom",
                                        @["pos"][id].x, @["pos"][id].y, 0),
                    id),
            !.next_entity_id = @ + 1,
            !.returned = Append(@, M.next_entity_id),
            !.events = Append(@, [id |-> id, boom |-> M.next_entity_id,
                                  x |-> M.components["pos"][id].x,
                                  y |-> M.components["pos"][id].y])]
    ELSE M

\* The loop over mortals from the entry after id last on
RECURSIVE MortalAll(_, _)
RECURSIVE MortalNext(_, _)
MortalAll(M, last) == MortalNext(M, NextLive(M.components["mor"], last))

MortalNext(M, id) ==
    IF id = 0 THEN M
    ELSE MortalAll([MortalEntity(M, id) EXCEPT !.visited = Append(@, id)], id)

system_mortal_run ==
    /\ IF "mor" \notin DOMAIN components
       THEN /\ hist' = HistEvents("system_mortal", 0, <<>>, <<>>, {})
            /\ UNCHANGED <<components, next_entity_id>>
       ELSE LET R == MortalAll([components |-> components,
                                next_entity_id |-> next_entity_id,
                                returned |-> <<>>, events |-> <<>>,
                                visited |-> <<>>], 0)
            IN /\ components' = R.components
               /\ next_entity_id' = R.next_entity_id
               /\ hist' = HistPass("system_mortal", 0, R.events, R.returned,
                                   {R.events[n].id : n \in 1..Len(R.events)},
                                   R.visited)
    /\ UNCHANGED <<game_state, game_timer, map_width, map_height, map_tiles,
                   spatial_width, spatial_height, spatial_tiles, camera_x, camera_y, camera_facing,
                   player_id, heap>>

----------------------------------------------------------------------------
(* system_ttl(dt), on T = [components, gone, visited]                        *)

\* A variant of TtlEntity that leaves doom.d as it is (C28 depends on the
\* decrement)
TtlEntityStill(T, id, dt) ==
    IF T.components["ttl"][id].d <= 0
    THEN [T EXCEPT !.components = remove_entity(@, id), !.gone = @ \cup {id}]
    ELSE T

\* The body of the loop over components.ttl, for entity id
TtlEntity(T, id, dt) ==
    IF T.components["ttl"][id].d - dt <= 0
    THEN [T EXCEPT !.components = remove_entity(@, id), !.gone = @ \cup {id}]
    ELSE [T EXCEPT !.components["ttl"][id].d = @ - dt]

\* The loop over components.ttl from the entry after id last on
RECURSIVE TtlAll(_, _, _)
RECURSIVE TtlNext(_, _, _)
TtlAll(T, last, dt) == TtlNext(T, NextLive(T.components["ttl"], last), dt)

TtlNext(T, id, dt) ==
    IF id = 0 THEN T
    ELSE TtlAll([TtlEntity(T, id, dt) EXCEPT !.visited = Append(@, id)], id, dt)

system_ttl_dt(dt) ==
    /\ IF "ttl" \notin DOMAIN components
       THEN /\ hist' = HistEvents("system_ttl", dt, <<>>, <<>>, {})
            /\ UNCHANGED components
       ELSE LET R == TtlAll([components |-> components, gone |-> {},
                             visited |-> <<>>], 0, dt)
            IN /\ components' = R.components
               /\ hist' = HistPass("system_ttl", dt, <<>>, <<>>, R.gone, R.visited)
    /\ UNCHANGED <<game_state, game_timer, map_width, map_height, map_tiles,
                   spatial_width, spatial_height, spatial_tiles, camera_x, camera_y, camera_facing,
                   player_id, heap, next_entity_id>>

----------------------------------------------------------------------------
(* system_input(dt).  keys is the set of key codes for which keyboard[code]  *)
(* is true.                                                                  *)

PLAYER_MOVE_SPEED == 6

\* PLAYER_ROT_SPEED * dt, with PLAYER_ROT_SPEED = Math.PI * 0.75 = 150/400
\* of a turn per second
RotDistance(dt) == (150 * dt) \div 100

WEAPONS == [pistol |-> [p |-> "bullet", d |-> UNIT \div 2, s |-> 12, c |-> 40]]

key_down(keys, a, b) == a \in keys \/ b \in keys

\* "Decrease player attack cooldown"
CoolDown(I, id, dt) ==
    IF I.components["pla"][id].c > 0 THEN [I EXCEPT !.components["pla"][id].c = @ - dt]
    ELSE I

\* pos.x += facing_x * move_distance (way = 1) or -= (way = -1), and the same
\* for pos.y
MoveAlong(pos, way, dt) ==
    [pos EXCEPT !.x = @ + way * Cos(pos.f) * ((PLAYER_MOVE_SPEED * UNIT * dt) \div 100),
                !.y = @ + way * Sin(pos.f) * ((PLAYER_MOVE_SPEED * UNIT * dt) \div 100)]

MoveKeys(I, id, keys, dt) ==
    IF key_down(keys, 38, 87) THEN [I EXCEPT !.components["pos"][id] = MoveAlong(@, 1, dt)]
    ELSE IF key_down(keys, 40, 83)
    THEN [I EXCEPT !.components["pos"][id] = MoveAlong(@, -1, dt)]
    ELSE I

RotateKeys(I, id, keys, dt) ==
    IF key_down(keys, 37, 65) THEN [I EXCEPT !.components["pos"][id].f = @ - RotDistance(dt)]
    ELSE IF key_down(keys, 39, 68)
    THEN [I EXCEPT !.components["pos"][id].f = @ + RotDistance(dt)]
    ELSE I

\* The projectile of weapon w, spawned as entity n by the player at pos
Projectile(C, n, w, pos) ==
    [spawn_prefab_entity(C, n, w.p, pos.x + Cos(pos.f) * w.d, pos.y + Sin(pos.f) * w.d,
                         pos.f)
       EXCEPT !["body"][n] = [@ EXCEPT !.vx = Cos(pos.f) * w.s * UNIT,
                                       !.vy = Sin(pos.f) * w.s * UNIT]]

FireKeys(I, id, keys) ==
    IF key_down(keys, 13, 32) /\ I.components["pla"][id].c <= 0
    THEN [I EXCEPT
            !.components =
                Projectile([@ EXCEPT !["pla"][id].c = @ + WEAPONS[I.components["pla"][id].w].c],
                           I.next_entity_id, WEAPONS[I.components["pla"][id].w],
                           I.components["pos"][id]),
            !.next_entity_id = @ + 1,
            !.returned = Append(@, I.next_entity_id)]
    ELSE I

InputResult(C, P, N, keys, dt) ==
    FireKeys(RotateKeys(MoveKeys(CoolDown([components |-> C, next_entity_id |-> N,
                                           returned |-> <<>>], P, dt),
                                 P, keys, dt),
                        P, keys, dt),
             P, keys)

system_input_dt(dt, keys) ==
    /\ IF game_state # "play" \/ ~has_entity_component(components, player_id, "pla")
       THEN /\ hist' = HistEvents("system_input", dt, <<>>, <<>>, {})
            /\ UNCHANGED <<components, next_entity_id>>
       ELSE LET R == InputResult(components, player_id, next_entity_id, keys, dt)
            IN /\ components' = R.components
               /\ next_entity_id' = R.next_entity_id
               /\ hist' = HistEvents("system_input", dt, <<>>, R.returned, {})
    /\ UNCHANGED <<game_state, game_timer, map_width, map_height, map_tiles,
                   spatial_width, spatial_height, spatial_tiles, camera_x, camera_y, camera_facing,
                   player_id, heap>>

----------------------------------------------------------------------------
(* system_animation(dt) and system_camera(dt)                                *)

\* "if (++anim.i >= frames.length) anim.i = 0"
NextFrameIndex(anim) == IF anim.i + 1 >= Len(anim.f[anim.a + 1]) THEN 0 ELSE anim.i + 1

\* The body of the loop over components.ani, for entity id
AnimateEntity(C, id, dt) ==
    IF C["ani"][id].e + dt >= C["ani"][id].d
    THEN [C EXCEPT !["ani"][id] = [@ EXCEPT !.e = @ + dt - C["ani"][id].d,
                                            !.i = NextFrameIndex(C["ani"][id])],
                   !["sprite"][id].i =
                       C["ani"][id].f[C["ani"][id].a + 1][NextFrameIndex(C["ani"][id]) + 1]]
    ELSE [C EXCEPT !["ani"][id].e = @ + dt]

RECURSIVE AnimateAll(_, _, _)
AnimateAll(C, ids, dt) ==
    IF ids = <<>> THEN C ELSE AnimateAll(AnimateEntity(C, Head(ids), dt), Tail(ids), dt)

system_animation_dt(dt) ==
    /\ components' = IF "ani" \notin DOMAIN components THEN components
                     ELSE AnimateAll(components, IdsInOrder(DOMAIN components["ani"]), dt)
    /\ hist' = HistEvents("system_animation", dt, <<>>, <<>>, {})
    /\ UNCHANGED <<game_state, game_timer, map_width, map_height, map_tiles,
                   spatial_width, spatial_height, spatial_tiles, camera_x, camera_y, camera_facing,
                   player_id, heap, next_entity_id>>

\* In the title states the camera turns where it stands.
system_camera_dt(dt) ==
    /\ IF game_state = "play" /\ has_entity_component(components, player_id, "pos")
       THEN /\ camera_x' = components["pos"][player_id].x
            /\ camera_y' = components["pos"][player_id].y
            /\ camera_facing' = Facing(Cos(components["pos"][player_id].f),
                                       Sin(components["pos"][player_id].f), 0)
       ELSE /\ UNCHANGED <<camera_x, camera_y>>
            /\ camera_facing' =
                  IF game_state \in {"load", "load_outro", "title_intro", "title"}
                  THEN [camera_facing EXCEPT !.turned = @ + dt]
                  ELSE camera_facing
    /\ hist' = HistEvents("system_camera", dt, <<>>, <<>>, {})
    /\ UNCHANGED <<game_state, game_timer, map_width, map_height, map_tiles,
                   spatial_width, spatial_height, spatial_tiles, player_id, components,
                   heap, next_entity_id>>

\* system_tween(dt), system_render_map(), system_render_entities() and
\* system_render_ui() as far as the tweens, the UI texts and the canvas go:
\* these are not part of the model
Drawn(sys, dt) ==
    /\ hist' = HistEvents(sys, dt, <<>>, <<>>, {})
    /\ UNCHANGED <<game_state, game_timer, map_width, map_height, map_tiles,
                   spatial_width, spatial_height, spatial_tiles, camera_x, camera_y, camera_facing,
                   player_id, components, heap, next_entity_id>>

----------------------------------------------------------------------------
(* system_physics(dt) *)

\* The variables system_physics writes, from the result R of the tick
Ticked(dt, R) ==
    /\ components' = R.components
    /\ heap' = R.heap
    /\ spatial_tiles' = R.spatial
    /\ hist' = HistAfter("system_physics",
                         [dt |-> dt, pre |-> components, mid |-> R.mid,
                          evals |-> R.evals, pairs |-> R.pairs, steps |-> R.steps],
                         hist.ticks + 1, <<>>, {})

\* system_physics(dt); frame() calls it every frame, whatever game_state is
system_physics_dt(dt) ==
    /\ IF "body" \notin DOMAIN components
       THEN /\ hist' = HistAfter("system_physics", [NoPhysics EXCEPT !.dt = dt],
                                 hist.ticks + 1, <<>>, {})
            /\ UNCHANGED <<components, heap, spatial_tiles>>
       ELSE Ticked(dt, PhysicsResult(components, heap, spatial_tiles, dt))
    /\ UNCHANGED <<game_state, game_timer, map_width, map_height, map_tiles,
                   spatial_width, spatial_height, camera_x, camera_y, camera_facing, player_id,
                   next_entity_id>>

\* A call of system_physics with one of the frame times
system_physics ==
    /\ hist.ticks < MaxTicks
    /\ \E dt \in DTs : system_physics_dt(dt) /\ UNCHANGED frameVars

----------------------------------------------------------------------------

Next ==
    \/ system_game
    \/ Spawn
    \/ Remove
    \/ state_wander_enter
    \/ system_physics

Spec == Init /\ [][Next]_vars

----------------------------------------------------------------------------
(* A late state of a run: enough ids have been handed out that the next one  *)
(* is no longer below the width hash_ids gives idx.  Every entity but the    *)
(* player (id 1) has been despawned, and the last tick left no contacts.     *)

\* The first id that is not below HASH_WIDTH
LateId == HASH_WIDTH + 1

InitLate ==
    /\ game_state = "play"
    /\ game_timer = 0
    /\ map_width = MapSize
    /\ map_height = MapSize
    /\ \E g \in Generators : map_tiles = GeneratedTiles(g, MapSize, MapSize)
    /\ spatial_width = CeilBucket(MapSize)
    /\ spatial_height = CeilBucket(MapSize)
    /\ spatial_tiles = InitSpatial(MapSize, MapSize)
    /\ camera_x = (MapSize \div 2) * UNIT + UNIT \div 2
    /\ camera_y = (MapSize \div 2) * UNIT + UNIT \div 2
    /\ player_id = 1
    /\ components = spawn_prefab_entity([k \in {} |-> NoGroup], 1, "player",
                                        (MapSize \div 2) * UNIT + UNIT \div 2,
                                        (MapSize \div 2) * UNIT + UNIT \div 2, 0)
    /\ heap = [r \in PrefabRefs \cup {"scenario"} |-> <<>>]
    /\ next_entity_id = LateId
    /\ hist = [op |-> "late", phys |-> NoPhysics, ticks |-> 0, removes |-> 0,
               returned |-> <<>>, despawned |-> {}, dt |-> 0, pre |-> <<>>,
               events |-> <<>>, visited |-> <<>>]
    /\ FrameIdle

\* The systems that run during play; the game stays in "play", where
\* system_game changes nothing while the player exists
NextLate ==
    \/ Spawn
    \/ Remove
    \/ state_wander_enter
    \/ system_physics

SpecLate == InitLate /\ [][NextLate]_vars

----------------------------------------------------------------------------
(* system_physics on one body next to one wall tile: the map is open but for *)
(* tile (1, 5), and the store holds one entity, 1, with a position and a     *)
(* 0.4 x 0.4 body whose contact array is its own.                            *)

ScenarioTiles ==
    [k \in 1..(MapSize * MapSize) |-> IF k - 1 = idx(1, 5, MapSize) THEN 1 ELSE 0]

ScenarioBody(vx, vy, b) ==
    [PrefabBody((2 * UNIT) \div 5, (2 * UNIT) \div 5, b, 0, GROUP_PLAYER, "scenario")
        EXCEPT !.vx = vx, !.vy = vy]

ScenarioPos(x, y) == [x |-> x, y |-> y, f |-> 0]

\* The positions, velocities (tiles per second) and bounces offered
ScenarioXs == {At(18), At(30)}
ScenarioYs == {At(100), At(110)}
ScenarioSpeeds == {-5 * UNIT, 0, 5 * UNIT}
ScenarioBounces == {0, 1}

InitScenario ==
    /\ game_state = "play"
    /\ game_timer = 0
    /\ map_width = MapSize
    /\ map_height = MapSize
    /\ map_tiles = ScenarioTiles
    /\ spatial_width = CeilBucket(MapSize)
    /\ spatial_height = CeilBucket(MapSize)
    /\ spatial_tiles = InitSpatial(MapSize, MapSize)
    /\ camera_x = (MapSize \div 2) * UNIT + UNIT \div 2
    /\ camera_y = (MapSize \div 2) * UNIT + UNIT \div 2
    /\ player_id = 0
    /\ \E x \in ScenarioXs, y \in ScenarioYs, vx \in ScenarioSpeeds,
          vy \in ScenarioSpeeds, b \in ScenarioBounces :
          components =
              add_entity_component(
                  add_entity_component([k \in {} |-> NoGroup], 1, "pos",
                                       ScenarioPos(x, y)),
                  1, "body", ScenarioBody(vx, vy, b))
    /\ heap = [r \in PrefabRefs \cup {"scenario"} |-> <<>>]
    /\ next_entity_id = 2
    /\ hist = [op |-> "scenario", phys |-> NoPhysics, ticks |-> 0, removes |-> 0,
               returned |-> <<>>, despawned |-> {}, dt |-> 0, pre |-> <<>>,
               events |-> <<>>, visited |-> <<>>]
    /\ FrameIdle

NextScenario == system_physics

SpecScenario == InitScenario /\ [][NextScenario]_vars

----------------------------------------------------------------------------
(* system_behavior on one slime: the game is in play on a map of the size    *)
(* the program generates, the player (entity 1) stands on the centre tile or *)
(* has been despawned, and a slime (entity 2) is in the centre column, which *)
(* every generator leaves open, in one of the states of its model.           *)

\* generate_map(21, 21)
PROGRAM_MAP_SIZE == 21

\* The slime's y, in twentieths of a tile: 0.75, 2, 4.5, 5, 7, 9 and 10
\* tiles below the player
SlimeYs == {225, 250, 300, 310, 350, 390, 410}

\* The states a slime may be in, with the times it may have been there
SlimeStates ==
    { [s |-> "undefined", e |-> 0],
      [s |-> "state_wander", e |-> 0], [s |-> "state_wander", e |-> 290],
      [s |-> "state_chase", e |-> 0], [s |-> "state_chase", e |-> 10],
      [s |-> "state_attack_windup", e |-> 40],
      [s |-> "state_attack", e |-> 40],
      [s |-> "state_idle", e |-> 40] }

\* The combinations a run of the game gets to.  A slime has no state
\* between its spawn, on a tile more than 4 from the player's, and the next
\* frame.  With the player there, a slime that has wandered for a while was
\* 5 or more away at the last frame and one that has chased for a while
\* was 9 or less away; the two get nearer or further by less than a tile in
\* a frame.
SlimeMayBe(y, st, with_player) ==
    /\ st.s = "undefined" => with_player /\ y >= 310
    /\ (with_player /\ st.s = "state_wander" /\ st.e > 0) => y >= 300
    /\ (with_player /\ st.s = "state_chase" /\ st.e > 0) => y <= 390

\* The animation play_animation has left for a slime in state s
AnimationOf(s) ==
    CASE s = "state_attack_windup" -> 1 [] s = "state_attack" -> 2 [] OTHER -> 0

\* The velocity a slime in state s has from its enter hook: a spawned slime
\* has none, a wandering one moves along a direction, a chasing one moves up
\* the column to the player at 1.5 tiles per second, the others stand.
VelocityOf(s) ==
    CASE s = "state_wander" -> [vx |-> -UNIT, vy |-> 0]
      [] s = "state_chase" -> [vx |-> 0, vy |-> -(3 * UNIT) \div 2]
      [] OTHER -> [vx |-> 0, vy |-> 0]

\* The store with slime id in the state st (s, e)
SlimeIn(C, id, st) ==
    [C EXCEPT !["beh"][id] = [@ EXCEPT !.s = st.s, !.e = st.e],
              !["ani"][id] = play_animation(@, AnimationOf(st.s)),
              !["body"][id] = [@ EXCEPT !.vx = VelocityOf(st.s).vx,
                                        !.vy = VelocityOf(st.s).vy],
              !["pos"][id] = [@ EXCEPT !.f = IF st.s = "undefined" THEN 0 ELSE -100]]

\* The player and the slime at y (twentieths of a tile) in state st
PlayerAndSlime(y, st) ==
    SlimeIn(spawn_prefab_entity(
                spawn_prefab_entity([k \in {} |-> NoGroup], 1, "player",
                                    At(210), At(210), 0),
                2, "slime", At(210), At(y), 0),
            2, st)

InitBehavior ==
    /\ map_width = PROGRAM_MAP_SIZE
    /\ map_height = PROGRAM_MAP_SIZE
    /\ \E g \in Generators :
          map_tiles = GeneratedTiles(g, PROGRAM_MAP_SIZE, PROGRAM_MAP_SIZE)
    /\ spatial_width = CeilBucket(PROGRAM_MAP_SIZE)
    /\ spatial_height = CeilBucket(PROGRAM_MAP_SIZE)
    /\ spatial_tiles = InitSpatial(PROGRAM_MAP_SIZE, PROGRAM_MAP_SIZE)
    /\ camera_x = At(210)
    /\ camera_y = At(210)
    /\ player_id = 1
    /\ game_timer \in {0, 200}
    /\ game_state = IF game_timer = 0 THEN "play" ELSE "play_outro"
    /\ \E y \in SlimeYs, st \in SlimeStates :
          /\ SlimeMayBe(y, st, game_state = "play")
          /\ components = IF game_state = "play"
                          THEN PlayerAndSlime(y, st)
                          ELSE remove_entity(PlayerAndSlime(y, st), 1)
    /\ heap = [r \in PrefabRefs \cup {"scenario"} |-> <<>>]
    /\ next_entity_id = 3
    /\ hist = [op |-> "behavior", phys |-> NoPhysics, ticks |-> 0, removes |-> 0,
               returned |-> <<>>, despawned |-> {}, dt |-> 0, pre |-> <<>>,
               events |-> <<>>, visited |-> <<>>]
    /\ FrameIdle

NextBehavior == system_behavior

SpecBehavior == InitBehavior /\ [][NextBehavior]_vars

----------------------------------------------------------------------------
(* system_behavior and system_animation over the frames of a game: each      *)
(* frame calls the first and then, with the same dt, the second.  The slime  *)
(* has not attacked yet: its animation is the one it was spawned with.       *)

InitAnimation ==
    /\ InitBehavior
    /\ \A id \in DOMAIN components["ani"] :
          components["ani"][id] = PREFABS["slime"]["ani"]

\* The call of system_behavior of a frame
system_behavior_in_frame ==
    /\ hist.op # "system_behavior"
    /\ system_behavior

\* The call of system_animation of the same frame
system_animation ==
    /\ hist.op = "system_behavior"
    /\ system_animation_dt(hist.dt)
    /\ UNCHANGED frameVars

NextAnimation ==
    \/ system_behavior_in_frame
    \/ system_animation

SpecAnimation == InitAnimation /\ [][NextAnimation]_vars

----------------------------------------------------------------------------
(* frame(time) and the loop over systems.  A frame is a sequence of steps:   *)
(* frame() up to the loop, then one step for each call sys(dt); sys_index is *)
(* the place in systems of the next call, 0 outside the loop.                *)

\* A variant of systems with system_hazard ahead of system_physics (C19
\* depends on the order)
systems_hazard_first ==
    <<"system_input", "system_behavior", "system_hazard", "system_physics",
      "system_mortal", "system_ttl", "system_game", "system_animation", "system_tween",
      "system_camera", "system_render_map", "system_render_entities",
      "system_render_ui">>

\* systems, as main() has filled it
systems ==
    <<"system_input", "system_behavior", "system_physics", "system_hazard",
      "system_mortal", "system_ttl", "system_game", "system_animation", "system_tween",
      "system_camera", "system_render_map", "system_render_entities",
      "system_render_ui">>

\* A variant of RunsSystems that runs them whatever dt is (C18 depends on
\* the test)
RunsSystemsAlways(dt) == dt >= 0

\* "if (dt < 0.2)"
RunsSystems(dt) == dt < 20

\* frame(time) with time = last_frame + delta for a delta of deltas, up to
\* the loop; with the systems not run, all of it
FrameOf(deltas) ==
    /\ sys_index = 0
    /\ \E delta \in deltas :
          /\ frame_dt' = delta
          /\ last_frame' = last_frame + delta
          /\ sys_index' = IF RunsSystems(delta) THEN 1 ELSE 0
          /\ flog' = [NoFrameLog EXCEPT !.frames = flog.frames + 1,
                                        !.start = Snapshot,
                                        !.entered = RunsSystems(delta)]
    /\ hist' = HistEvents("frame", 0, <<>>, <<>>, {})
    /\ UNCHANGED <<game_state, game_timer, map_width, map_height, map_tiles,
                   spatial_width, spatial_height, spatial_tiles, camera_x, camera_y,
                   player_id, components, heap, next_entity_id, ray,
                   camera_facing, depth_buffer>>

frame ==
    /\ flog.frames < MaxFrames
    /\ hist.ticks < MaxTicks
    /\ FrameOf(FrameDeltas)

\* The loop is at the call of sys, and goes on to the next or ends
AtSystem(sys) ==
    /\ sys_index > 0
    /\ systems[sys_index] = sys
    /\ sys_index' = IF sys_index = Len(systems) THEN 0 ELSE sys_index + 1
    /\ UNCHANGED <<last_frame, frame_dt, ray>>
    /\ sys # "system_render_map" => UNCHANGED depth_buffer

\* flog after the call of sys, which has left hist as its record
Ran(sys) ==
    flog' = [flog EXCEPT
                !.ran = Append(@, sys),
                !.touched = IF sys = "system_hazard" THEN hist'.pre ELSE @,
                !.struck = IF sys = "system_mortal" THEN hist'.pre ELSE @,
                !.hits = IF sys = "system_hazard" THEN hist'.events ELSE @,
                !.deaths = IF sys = "system_mortal" THEN hist'.events ELSE @]

\* keyboard, as the key handlers have left it when system_input reads it:
\* nothing held, fire, forward.  The rotation keys are not offered: the
\* player's facing stays a quarter turn.
KeySets == {{}, {32}, {38}}

call_system_input ==
    /\ AtSystem("system_input")
    /\ \E keys \in KeySets : system_input_dt(frame_dt, keys)
    /\ Ran("system_input")

call_system_behavior ==
    /\ AtSystem("system_behavior")
    /\ system_behavior_dt(frame_dt)
    /\ Ran("system_behavior")

call_system_physics ==
    /\ AtSystem("system_physics")
    /\ system_physics_dt(frame_dt)
    /\ Ran("system_physics")

call_system_hazard ==
    /\ AtSystem("system_hazard")
    /\ system_hazard_run
    /\ Ran("system_hazard")

call_system_mortal ==
    /\ AtSystem("system_mortal")
    /\ system_mortal_run
    /\ Ran("system_mortal")

call_system_ttl ==
    /\ AtSystem("system_ttl")
    /\ system_ttl_dt(frame_dt)
    /\ Ran("system_ttl")

call_system_game ==
    /\ AtSystem("system_game")
    /\ system_game_dt(frame_dt)
    /\ Ran("system_game")

call_system_animation ==
    /\ AtSystem("system_animation")
    /\ system_animation_dt(frame_dt)
    /\ Ran("system_animation")

call_system_tween ==
    /\ AtSystem("system_tween")
    /\ Drawn("system_tween", frame_dt)
    /\ Ran("system_tween")

call_system_camera ==
    /\ AtSystem("system_camera")
    /\ system_camera_dt(frame_dt)
    /\ Ran("system_camera")

\* system_render_map(): "depth_buffer[x] = ray.d" for every column
system_render_map_run(dt) ==
    /\ Drawn("system_render_map", dt)
    /\ depth_buffer' = DepthsFrom(camera_x, camera_y, camera_facing)

call_system_render_map ==
    /\ AtSystem("system_render_map")
    /\ system_render_map_run(frame_dt)
    /\ Ran("system_render_map")

call_system_render_entities ==
    /\ AtSystem("system_render_entities")
    /\ Drawn("system_render_entities", frame_dt)
    /\ Ran("system_render_entities")

call_system_render_ui ==
    /\ AtSystem("system_render_ui")
    /\ Drawn("system_render_ui", frame_dt)
    /\ Ran("system_render_ui")

----------------------------------------------------------------------------
(* Frames during play, on the map the program generates.  The centre column  *)
(* is open in every generated map.  The player (1) stands on the centre tile *)
(* and faces up the column; a slime (2) wanders across the column; a bullet  *)
(* (3) the player has fired flies up the column.                             *)

\* The bullet's place (y, in twentieths of a tile) and the player's cooldown
\* with it: fired 4 frames ago, or 8 frames ago and about to leave the map
BulletFlights == {[y |-> 104, c |-> 10], [y |-> 8, c |-> 0]}

\* The slime's place (y, in twentieths of a tile): in the way of the bullet's
\* next step from 5.2, or beyond it
FrameSlimeYs == {74, 30}

\* The slime's hit points: untouched, or hit before
FrameSlimeHps == {6, 2, 1}

\* A bullet about to leave the map has passed every place on the column but
\* those a slime has since wandered into
SceneMayBe(flight, y) == flight.y = 8 => y = 74

\* bb as update_bounding_box left it at the last tick, for every body of C
WithBoundingBoxes(C) ==
    [C EXCEPT !["body"] =
        [id \in DOMAIN C["body"] |->
            [C["body"][id] EXCEPT !.bb = update_bounding_box(C["pos"][id], C["body"][id])]]]

RECURSIVE InsertBodies(_, _, _)
InsertBodies(S, C, ids) ==
    IF ids = <<>> THEN S
    ELSE InsertBodies(insert_spatial_bounds(S, Head(ids), C["body"][Head(ids)].bb), C,
                      Tail(ids))

\* The player, the slime at y with hp hit points and the bullet of flight
Scene(flight, y, hp) ==
    WithBoundingBoxes(
        [Projectile(
            SlimeIn(spawn_prefab_entity(
                        spawn_prefab_entity([k \in {} |-> NoGroup], 1, "player",
                                            At(210), At(210), -100),
                        2, "slime", At(210), At(y), 0),
                    2, [s |-> "state_wander", e |-> 0]),
            3, WEAPONS.pistol,
            [x |-> At(210), y |-> At(flight.y) + WEAPONS.pistol.d, f |-> -100])
         EXCEPT !["mor"][2].h = hp, !["pla"][1].c = flight.c])

InitFrame ==
    /\ game_state = "play"
    /\ game_timer = 0
    /\ map_width = PROGRAM_MAP_SIZE
    /\ map_height = PROGRAM_MAP_SIZE
    /\ \E g \in Generators :
          map_tiles = GeneratedTiles(g, PROGRAM_MAP_SIZE, PROGRAM_MAP_SIZE)
    /\ spatial_width = CeilBucket(PROGRAM_MAP_SIZE)
    /\ spatial_height = CeilBucket(PROGRAM_MAP_SIZE)
    /\ camera_x = At(210)
    /\ camera_y = At(210)
    /\ player_id = 1
    /\ \E flight \in BulletFlights, y \in FrameSlimeYs, hp \in FrameSlimeHps :
          /\ SceneMayBe(flight, y)
          /\ components = Scene(flight, y, hp)
    /\ spatial_tiles = InsertBodies(InitSpatial(PROGRAM_MAP_SIZE, PROGRAM_MAP_SIZE),
                                    components, IdsInOrder(DOMAIN components["body"]))
    /\ heap = [r \in PrefabRefs \cup {"scenario"} |-> <<>>]
    /\ next_entity_id = 4
    /\ hist = [op |-> "play", phys |-> NoPhysics, ticks |-> 0, removes |-> 0,
               returned |-> <<>>, despawned |-> {}, dt |-> 0, pre |-> <<>>,
               events |-> <<>>, visited |-> <<>>]
    /\ FrameIdle

NextFrame ==
    \/ frame
    \/ call_system_input
    \/ call_system_behavior
    \/ call_system_physics
    \/ call_system_hazard
    \/ call_system_mortal
    \/ call_system_ttl
    \/ call_system_game
    \/ call_system_animation
    \/ call_system_tween
    \/ call_system_camera
    \/ call_system_render_map
    \/ call_system_render_entities
    \/ call_system_render_ui

SpecFrame == InitFrame /\ [][NextFrame]_vars

----------------------------------------------------------------------------
(* Frames during play with bodies at the edges of the map the program        *)
(* generates.  The player (1) has walked up the centre column to the top     *)
(* edge, where the tick has clamped it (bb.y = 0), and faces up.  A slime    *)
(* (2) was spawned on an open tile of the last column or the last row and    *)
(* has entered state_wander with a direction towards the edge.               *)

\* The slime's place (in twentieths of a tile) and the velocity its
\* state_wander has given it: on tile (20, 3) moving right, or on tile
\* (10, 20) moving down
EdgeSlimes ==
    { [x |-> 410, y |-> 70, vx |-> UNIT, vy |-> 0],
      [x |-> 210, y |-> 410, vx |-> 0, vy |-> UNIT] }

\* The player at the top edge and the slime of place at
EdgeScene(at) ==
    WithBoundingBoxes(
        [SlimeIn(spawn_prefab_entity(
                     spawn_prefab_entity([k \in {} |-> NoGroup], 1, "player",
                                         At(210), At(4), -100),
                     2, "slime", At(at.x), At(at.y), 0),
                 2, [s |-> "state_wander", e |-> 0])
         EXCEPT !["body"][2] = [@ EXCEPT !.vx = at.vx, !.vy = at.vy]])

InitEdge ==
    /\ game_state = "play"
    /\ game_timer = 0
    /\ map_width = PROGRAM_MAP_SIZE
    /\ map_height = PROGRAM_MAP_SIZE
    /\ \E g \in Generators :
          map_tiles = GeneratedTiles(g, PROGRAM_MAP_SIZE, PROGRAM_MAP_SIZE)
    /\ spatial_width = CeilBucket(PROGRAM_MAP_SIZE)
    /\ spatial_height = CeilBucket(PROGRAM_MAP_SIZE)
    /\ camera_x = At(210)
    /\ camera_y = At(4)
    /\ player_id = 1
    /\ \E at \in EdgeSlimes :
          /\ components = EdgeScene(at)
          /\ WallCells(components["body"][2].bb) = <<>>
    /\ spatial_tiles = InsertBodies(InitSpatial(PROGRAM_MAP_SIZE, PROGRAM_MAP_SIZE),
                                    components, IdsInOrder(DOMAIN components["body"]))
    /\ heap = [r \in PrefabRefs \cup {"scenario"} |-> <<>>]
    /\ next_entity_id = 3
    /\ hist = [op |-> "play", phys |-> NoPhysics, ticks |-> 0, removes |-> 0,
               returned |-> <<>>, despawned |-> {}, dt |-> 0, pre |-> <<>>,
               events |-> <<>>, visited |-> <<>>]
    /\ FrameIdle

SpecEdge == InitEdge /\ [][NextFrame]_vars

----------------------------------------------------------------------------
(* Frames of a game in play in which the player (1), in the middle of the    *)
(* map and facing along x, has a slime (2) before it that has come within a  *)
(* distance of 1 and stands in state_attack_windup.                          *)

\* The slime's place, in twentieths of a tile: 0.7, 0.8 and 1.0 ahead of the
\* player, the second a little to the side
RushSlimes ==
    { [x |-> 224, y |-> 210], [x |-> 226, y |-> 212], [x |-> 230, y |-> 210] }

\* The player at (10.5, 10.5) and the slime at the place at
RushScene(at) ==
    WithBoundingBoxes(
        SlimeIn(spawn_prefab_entity(
                    spawn_prefab_entity([k \in {} |-> NoGroup], 1, "player",
                                        At(210), At(210), 0),
                    2, "slime", At(at.x), At(at.y), 0),
                2, [s |-> "state_attack_windup", e |-> 0]))

InitRush ==
    /\ game_state = "play"
    /\ game_timer = 0
    /\ map_width = PROGRAM_MAP_SIZE
    /\ map_height = PROGRAM_MAP_SIZE
    /\ \E g \in Generators :
          map_tiles = GeneratedTiles(g, PROGRAM_MAP_SIZE, PROGRAM_MAP_SIZE)
    /\ spatial_width = CeilBucket(PROGRAM_MAP_SIZE)
    /\ spatial_height = CeilBucket(PROGRAM_MAP_SIZE)
    /\ camera_x = At(210)
    /\ camera_y = At(210)
    /\ player_id = 1
    /\ \E at \in RushSlimes : components = RushScene(at)
    /\ spatial_tiles = InsertBodies(InitSpatial(PROGRAM_MAP_SIZE, PROGRAM_MAP_SIZE),
                                    components, IdsInOrder(DOMAIN components["body"]))
    /\ heap = [r \in PrefabRefs \cup {"scenario"} |-> <<>>]
    /\ next_entity_id = 3
    /\ hist = [op |-> "play", phys |-> NoPhysics, ticks |-> 0, removes |-> 0,
               returned |-> <<>>, despawned |-> {}, dt |-> 0, pre |-> <<>>,
               events |-> <<>>, visited |-> <<>>]
    /\ FrameIdle

SpecRush == InitRush /\ [][NextFrame]_vars

----------------------------------------------------------------------------
(* A game from the player's death on.  The player (1) in the middle of the   *)
(* map has one hit point left; the slime (2) next to it, on the column and   *)
(* facing it, is about to strike.  Every frame comes in time for the systems *)
(* to run (requestAnimationFrame keeps calling frame), and the game is       *)
(* followed through the lost screens back to the title, until the title is   *)
(* left.                                                                     *)

\* The most frames followed: 2 s of play_outro, 1 s of lost_intro, and the
\* 2.5 s from lost_outro to title, at 0.1 s a frame, and a few more
MaxRunFrames == 64

\* The slime's place on the column, in twentieths of a tile: 0.7 and 0.9
\* below the player
DeathSlimeYs == {224, 228}

DeathScene(y) ==
    WithBoundingBoxes(
        [PlayerAndSlime(y, [s |-> "state_attack_windup", e |-> 40])
            EXCEPT !["mor"][1].h = 1])

InitDeath ==
    /\ game_state = "play"
    /\ game_timer = 0
    /\ map_width = PROGRAM_MAP_SIZE
    /\ map_height = PROGRAM_MAP_SIZE
    /\ \E g \in Generators :
          map_tiles = GeneratedTiles(g, PROGRAM_MAP_SIZE, PROGRAM_MAP_SIZE)
    /\ spatial_width = CeilBucket(PROGRAM_MAP_SIZE)
    /\ spatial_height = CeilBucket(PROGRAM_MAP_SIZE)
    /\ camera_x = At(210)
    /\ camera_y = At(210)
    /\ player_id = 1
    /\ \E y \in DeathSlimeYs : components = DeathScene(y)
    /\ spatial_tiles = InsertBodies(InitSpatial(PROGRAM_MAP_SIZE, PROGRAM_MAP_SIZE),
                                    components, IdsInOrder(DOMAIN components["body"]))
    /\ heap = [r \in PrefabRefs \cup {"scenario"} |-> <<>>]
    /\ next_entity_id = 3
    /\ hist = [op |-> "play", phys |-> NoPhysics, ticks |-> 0, removes |-> 0,
               returned |-> <<>>, despawned |-> {}, dt |-> 0, pre |-> <<>>,
               events |-> <<>>, visited |-> <<>>]
    /\ FrameIdle

\* frame(time) in time for the systems to run
frame_run ==
    /\ flog.frames < MaxRunFrames
    /\ game_state # "title_outro"
    /\ FrameOf({delta \in FrameDeltas : RunsSystems(delta)})

NextDeath ==
    \/ frame_run
    \/ call_system_input
    \/ call_system_behavior
    \/ call_system_physics
    \/ call_system_hazard
    \/ call_system_mortal
    \/ call_system_ttl
    \/ call_system_game
    \/ call_system_animation
    \/ call_system_tween
    \/ call_system_camera
    \/ call_system_render_map
    \/ call_system_render_entities
    \/ call_system_render_ui

\* The steps of NextDeath as far as the place in frame() and the clock go:
\* requestAnimationFrame calls frame again, and the loop of frame calls the
\* next system when the last has returned.  No call in NextDeath has a
\* guard of its own, so that such a step is there whenever this is enabled.
LoopGoesOn ==
    \/ /\ sys_index = 0
       /\ flog.frames < MaxRunFrames
       /\ game_state # "title_outro"
       /\ sys_index' = 1
       /\ last_frame' \in {last_frame + delta : delta \in {d \in FrameDeltas : RunsSystems(d)}}
    \/ /\ sys_index > 0
       /\ sys_index' = IF sys_index = Len(systems) THEN 0 ELSE sys_index + 1
       /\ last_frame' = last_frame

\* frame() is called again and again, and its loop goes on
SpecDeath ==
    InitDeath /\ [][NextDeath]_vars /\ WF_<<sys_index, last_frame>>(LoopGoesOn)

----------------------------------------------------------------------------
(* Frames of play in which hazards fly and run out, on the map the program   *)
(* generates.  The player (1) stands on the centre tile, facing right along  *)
(* the centre row or up the centre column, and fires or does not; in half of *)
(* the scenes a slime (2) that the player has walked away from, two tiles    *)
(* below, is about to strike upwards at nothing.  Frame after frame runs the *)
(* systems.                                                                  *)

\* The frames in which the fire key may be down
HazardFireFrames == 6
\* The frames followed: a bullet crosses the half map in 9 frames
MaxHazardFrames == 17

HazardFacings == {0, -100}

HazardScene(f, with_slime) ==
    WithBoundingBoxes(
        [(IF with_slime
          THEN PlayerAndSlime(250, [s |-> "state_attack_windup", e |-> 40])
          ELSE spawn_prefab_entity([k \in {} |-> NoGroup], 1, "player",
                                   At(210), At(210), 0))
           EXCEPT !["pos"][1].f = f])

InitHazard ==
    /\ game_state = "play"
    /\ game_timer = 0
    /\ map_width = PROGRAM_MAP_SIZE
    /\ map_height = PROGRAM_MAP_SIZE
    /\ \E g \in Generators :
          map_tiles = GeneratedTiles(g, PROGRAM_MAP_SIZE, PROGRAM_MAP_SIZE)
    /\ spatial_width = CeilBucket(PROGRAM_MAP_SIZE)
    /\ spatial_height = CeilBucket(PROGRAM_MAP_SIZE)
    /\ camera_x = At(210)
    /\ camera_y = At(210)
    /\ player_id = 1
    /\ \E f \in HazardFacings, with_slime \in BOOLEAN :
          components = HazardScene(f, with_slime)
    /\ spatial_tiles = InsertBodies(InitSpatial(PROGRAM_MAP_SIZE, PROGRAM_MAP_SIZE),
                                    components, IdsInOrder(DOMAIN components["body"]))
    /\ heap = [r \in PrefabRefs \cup {"scenario"} |-> <<>>]
    /\ next_entity_id = IF 2 \in DOMAIN components["pos"] THEN 3 ELSE 2
    /\ hist = [op |-> "play", phys |-> NoPhysics, ticks |-> 0, removes |-> 0,
               returned |-> <<>>, despawned |-> {}, dt |-> 0, pre |-> <<>>,
               events |-> <<>>, visited |-> <<>>]
    /\ FrameIdle

\* frame(time) in time for the systems to run, while frames are followed
frame_hazard ==
    /\ flog.frames < MaxHazardFrames
    /\ FrameOf({delta \in FrameDeltas : RunsSystems(delta)})

\* keyboard when system_input reads it: nothing held, or fire in the first
\* frames
StandingKeySets == IF flog.frames <= HazardFireFrames THEN {{}, {32}} ELSE {{}}

call_system_input_standing ==
    /\ AtSystem("system_input")
    /\ \E keys \in StandingKeySets : system_input_dt(frame_dt, keys)
    /\ Ran("system_input")

NextHazard ==
    \/ frame_hazard
    \/ call_system_input_standing
    \/ call_system_behavior
    \/ call_system_physics
    \/ call_system_hazard
    \/ call_system_mortal
    \/ call_system_ttl
    \/ call_system_game
    \/ call_system_animation
    \/ call_system_tween
    \/ call_system_camera
    \/ call_system_render_map
    \/ call_system_render_entities
    \/ call_system_render_ui

\* The steps of NextHazard as far as the place in frame() and the clock go
\* (see LoopGoesOn)
HazardLoopGoesOn ==
    \/ /\ sys_index = 0
       /\ flog.frames < MaxHazardFrames
       /\ sys_index' = 1
       /\ last_frame' \in {last_frame + delta : delta \in {d \in FrameDeltas : RunsSystems(d)}}
    \/ /\ sys_index > 0
       /\ sys_index' = IF sys_index = Len(systems) THEN 0 ELSE sys_index + 1
       /\ last_frame' = last_frame

\* frame() is called again and again with dt below the limit, and its loop
\* goes on
SpecHazard ==
    InitHazard /\ [][NextHazard]_vars /\ WF_<<sys_index, last_frame>>(HazardLoopGoesOn)

----------------------------------------------------------------------------
(* insert_spatial_bounds(id, bb) and get_spatial_neighbors(bb) as functions  *)
(* of bb, on the buckets init_map(21, 21) has made: calls with bounding      *)
(* boxes inside the map, against its right and bottom edges, and over them.  *)
(* hist.pre is what the call was given (bb) and found (tiles), hist.events   *)
(* is what get_spatial_neighbors returned.                                   *)

\* A 0.8 x 0.8 bounding box at (x, y), in twentieths of a tile
BoxAt(x, y) == [x |-> At(x), y |-> At(y), w |-> At(16), h |-> At(16)]

\* The boxes offered: x is 20.2 (against the right edge) or 21.8 (over it),
\* y is 3.1, 20.2 (against the bottom edge) or 21.8 (over it)
SpatialBoxes == {BoxAt(x, y) : x \in {404, 436}, y \in {62, 404, 436}}

InitSpatialCalls ==
    /\ game_state = "load"
    /\ game_timer = 50
    /\ map_width = PROGRAM_MAP_SIZE
    /\ map_height = PROGRAM_MAP_SIZE
    /\ \E g \in Generators :
          map_tiles = GeneratedTiles(g, PROGRAM_MAP_SIZE, PROGRAM_MAP_SIZE)
    /\ spatial_width = CeilBucket(PROGRAM_MAP_SIZE)
    /\ spatial_height = CeilBucket(PROGRAM_MAP_SIZE)
    /\ spatial_tiles = InitSpatial(PROGRAM_MAP_SIZE, PROGRAM_MAP_SIZE)
    /\ camera_x = At(210)
    /\ camera_y = At(210)
    /\ player_id = 0
    /\ components = [k \in {} |-> NoGroup]
    /\ heap = [r \in PrefabRefs \cup {"scenario"} |-> <<>>]
    /\ next_entity_id = 1
    /\ hist = [op |-> "init_map", phys |-> NoPhysics, ticks |-> 0, removes |-> 0,
               returned |-> <<>>, despawned |-> {}, dt |-> 0, pre |-> <<>>,
               events |-> <<>>, visited |-> <<>>]
    /\ FrameIdle

\* The record of a call of op with bb, which returned result; ticks counts
\* the calls
SpatialCalled(op, bb, result) ==
    [HistAfter(op, NoPhysics, hist.ticks + 1, <<>>, {}) EXCEPT
        !.pre = [bb |-> bb, tiles |-> spatial_tiles],
        !.events = result]

\* insert_spatial_bounds(id, bb); the id is the number of the call
insert_spatial_bounds_call ==
    /\ hist.ticks < MaxTicks
    /\ \E bb \in SpatialBoxes :
          /\ spatial_tiles' = insert_spatial_bounds(spatial_tiles, hist.ticks + 1, bb)
          /\ hist' = SpatialCalled("insert_spatial_bounds", bb, <<>>)
    /\ UNCHANGED <<game_state, game_timer, map_width, map_height, map_tiles,
                   spatial_width, spatial_height, camera_x, camera_y, camera_facing, player_id,
                   components, heap, next_entity_id>>
    /\ UNCHANGED frameVars

\* get_spatial_neighbors(bb)
get_spatial_neighbors_call ==
    /\ hist.ticks < MaxTicks
    /\ \E bb \in SpatialBoxes :
          hist' = SpatialCalled("get_spatial_neighbors", bb,
                                get_spatial_neighbors(spatial_tiles, bb))
    /\ UNCHANGED <<game_state, game_timer, map_width, map_height, map_tiles,
                   spatial_width, spatial_height, spatial_tiles, camera_x, camera_y, camera_facing,
                   player_id, components, heap, next_entity_id>>
    /\ UNCHANGED frameVars

NextSpatialCalls ==
    \/ insert_spatial_bounds_call
    \/ get_spatial_neighbors_call

SpecSpatialCalls == InitSpatialCalls /\ [][NextSpatialCalls]_vars

----------------------------------------------------------------------------
(* raycast(ox, oy, dx, dy).  ray holds the locals of the call: the cell      *)
(* (x, y), step_x and step_y, the result fields s, v and d, and hit.  The    *)
(* two side distances grow by delta_dist_x and delta_dist_y, which are       *)
(* sqrt(dx^2 + dy^2) / |dx| and the same over |dy|; ray holds them without   *)
(* that common factor: side_dist_x is (fx + nx) / |dx| and side_dist_y is    *)
(* (fy + ny) / |dy|, with fx, fy the distance from the origin to the first   *)
(* cell border and nx, ny the number of times the delta was added.  path is  *)
(* history: the cells the loop has jumped to, in order.  d is kept as the    *)
(* fraction n / over.                                                        *)

\* The most iterations of the loop the model follows: twice what the map of
\* the program lets a ray make (21 + 21)
MaxRaySteps == 84

\* A variant of OnMap that lets the column map_width pass (C24 depends on
\* the test)
OnMapOrBeside(x, y) == x >= 0 /\ x <= map_width /\ y >= 0 /\ y < map_height

\* "x >= 0 && x < map_width && y >= 0 && y < map_height"
OnMap(x, y) == x >= 0 /\ x < map_width /\ y >= 0 /\ y < map_height

\* map_tiles[i]; beyond the array it is undefined, here -1
TileValue(i) == IF i >= 0 /\ i < Len(map_tiles) THEN map_tiles[i + 1] ELSE -1

\* The locals when the loop is reached
RayStart(ox, oy, dx, dy) ==
    [pc |-> "loop", ox |-> ox, oy |-> oy, dx |-> dx, dy |-> dy,
     x |-> FloorTile(ox), y |-> FloorTile(oy),
     step_x |-> IF dx < 0 THEN -1 ELSE 1,
     step_y |-> IF dy < 0 THEN -1 ELSE 1,
     fx |-> IF dx < 0 THEN ox - FloorTile(ox) * UNIT
                      ELSE (FloorTile(ox) + 1) * UNIT - ox,
     fy |-> IF dy < 0 THEN oy - FloorTile(oy) * UNIT
                      ELSE (FloorTile(oy) + 1) * UNIT - oy,
     nx |-> 0, ny |-> 0, s |-> 0, v |-> 0, hit |-> FALSE,
     d |-> [n |-> 0, over |-> 1], path |-> <<>>]

\* What "side_dist_x < side_dist_y" may give.  With dx = 0 side_dist_x is
\* Infinity (or NaN when dy = 0 too) and the test fails; with dy = 0 only,
\* side_dist_y is Infinity and the test holds.  Two distances that are
\* equal as fractions are sums of rounded numbers in the program and may
\* compare either way.
SideDistLess(r) ==
    IF r.dx = 0 THEN {FALSE}
    ELSE IF r.dy = 0 THEN {TRUE}
    ELSE IF (r.fx + r.nx * UNIT) * Abs(r.dy) < (r.fy + r.ny * UNIT) * Abs(r.dx) THEN {TRUE}
    ELSE IF (r.fx + r.nx * UNIT) * Abs(r.dy) > (r.fy + r.ny * UNIT) * Abs(r.dx) THEN {FALSE}
    ELSE BOOLEAN

\* "Jump to next map square"
Jump(r, less) ==
    IF less
    THEN [r EXCEPT !.nx = @ + 1, !.x = @ + r.step_x, !.s = 0,
                   !.path = Append(@, [x |-> r.x + r.step_x, y |-> r.y])]
    ELSE [r EXCEPT !.ny = @ + 1, !.y = @ + r.step_y, !.s = 1,
                   !.path = Append(@, [x |-> r.x, y |-> r.y + r.step_y])]

\* The test of the cell after the jump: a wall ends the loop by hit, a cell
\* off the map ends it by break
Look(r) ==
    IF OnMap(r.x, r.y)
    THEN IF TileValue(idx(r.x, r.y, map_width)) # 0
         THEN [r EXCEPT !.v = TileValue(idx(r.x, r.y, map_width)), !.hit = TRUE,
                        !.pc = "after"]
         ELSE r
    ELSE [r EXCEPT !.v = 1, !.pc = "after"]

\* "Calculate distance projected on camera direction" and return
Return(r) ==
    IF r.pc # "after" THEN r
    ELSE [r EXCEPT
            !.pc = "done",
            !.d = IF r.s = 0
                  THEN [n |-> 2 * (r.x * UNIT - r.ox) + (1 - r.step_x) * UNIT,
                        over |-> 2 * UNIT * r.dx]
                  ELSE [n |-> 2 * (r.y * UNIT - r.oy) + (1 - r.step_y) * UNIT,
                        over |-> 2 * UNIT * r.dy]]

\* The directions offered, with dx = 0, dy = 0 and both
RayDirections == {<<dx, dy>> : dx \in {-2, 0, 1}, dy \in {-1, 0, 3}}

\* The camera's places (x, y), in twentieths of a tile: the centre of the
\* map, the top of the centre column, and the border between two tiles
RayCameras == {<<210, 210>>, <<210, 4>>, <<200, 210>>}

\* raycast(camera_x, camera_y, dx, dy), called by system_render_map: up to
\* the loop
raycast_call ==
    /\ ray.pc = "idle"
    /\ \E dir \in RayDirections : ray' = RayStart(camera_x, camera_y, dir[1], dir[2])
    /\ UNCHANGED <<game_state, game_timer, map_width, map_height, map_tiles,
                   spatial_width, spatial_height, spatial_tiles, camera_x, camera_y,
                   player_id, components, heap, next_entity_id, last_frame, frame_dt,
                   sys_index, hist, flog, camera_facing, depth_buffer>>

\* One iteration of "while (!hit)"; the last one goes on to the return
raycast_step ==
    /\ ray.pc = "loop"
    /\ Len(ray.path) < MaxRaySteps
    /\ \E less \in SideDistLess(ray) : ray' = Return(Look(Jump(ray, less)))
    /\ UNCHANGED <<game_state, game_timer, map_width, map_height, map_tiles,
                   spatial_width, spatial_height, spatial_tiles, camera_x, camera_y,
                   player_id, components, heap, next_entity_id, last_frame, frame_dt,
                   sys_index, hist, flog, camera_facing, depth_buffer>>

InitRay ==
    /\ game_state = "play"
    /\ game_timer = 0
    /\ map_width = PROGRAM_MAP_SIZE
    /\ map_height = PROGRAM_MAP_SIZE
    /\ \E g \in Generators :
          map_tiles = GeneratedTiles(g, PROGRAM_MAP_SIZE, PROGRAM_MAP_SIZE)
    /\ spatial_width = CeilBucket(PROGRAM_MAP_SIZE)
    /\ spatial_height = CeilBucket(PROGRAM_MAP_SIZE)
    /\ spatial_tiles = InitSpatial(PROGRAM_MAP_SIZE, PROGRAM_MAP_SIZE)
    /\ \E at \in RayCameras : camera_x = At(at[1]) /\ camera_y = At(at[2])
    /\ player_id = 1
    /\ components = spawn_prefab_entity([k \in {} |-> NoGroup], 1, "player",
                                        camera_x, camera_y, 0)
    /\ heap = [r \in PrefabRefs \cup {"scenario"} |-> <<>>]
    /\ next_entity_id = 2
    /\ hist = [op |-> "play", phys |-> NoPhysics, ticks |-> 0, removes |-> 0,
               returned |-> <<>>, despawned |-> {}, dt |-> 0, pre |-> <<>>,
               events |-> <<>>, visited |-> <<>>]
    /\ FrameIdle

NextRay ==
    \/ raycast_call
    \/ raycast_step

\* The loop goes on as long as its test holds
SpecRay == InitRay /\ [][NextRay]_vars /\ WF_vars(raycast_step)

----------------------------------------------------------------------------
(* The screen.  system_render_map() casts one ray a column from the camera   *)
(* and writes its d to depth_buffer; system_render_entities() draws every    *)
(* sprite in vertical strips, a strip at a column where the sprite is nearer *)
(* than the wall.  The canvas is not part of the model: hist.events of       *)
(* system_render_entities is history, the strips it has drawn by sprite.     *)
(* An entity's depth ty is in UNIT as the positions are; the d of a ray is   *)
(* the fraction Return leaves, of a direction RAY_SCALE times the            *)
(* program's.  Quotients are exact here and rounded in the program: which    *)
(* column a sprite starts at may differ by one where the quotient is close   *)
(* to a half.                                                                *)

CAMERA_WIDTH == 1024
CAMERA_HEIGHT == 512

\* 0.8
CAMERA_PLANE_LENGTH == [n |-> 4, over |-> 5]

\* What the ray directions are multiplied by to be integers, without the
\* factor 8 that all of them share
RAY_SCALE == (CAMERA_PLANE_LENGTH.over * CAMERA_WIDTH) \div 8

\* "ray_x = camera_facing_x + camera_plane_x * cam_x" with
\* "cam_x = (2 * x) / CAMERA_WIDTH - 1", and ray_y, times RAY_SCALE
ColumnRay(facing, x) ==
    LET across == (CAMERA_PLANE_LENGTH.n * (2 * x - CAMERA_WIDTH)) \div 8
    IN [dx |-> RAY_SCALE * facing.x - across * facing.y,
        dy |-> RAY_SCALE * facing.y + across * facing.x]

\* The locals raycast may return with from r, over the ways its comparisons
\* of equal distances may go
RECURSIVE RayRuns(_)
RayRuns(r) ==
    IF r.pc # "loop" THEN {r}
    ELSE UNION {RayRuns(Return(Look(Jump(r, less)))) : less \in SideDistLess(r)}

\* What depth_buffer[x] may hold in the buffer buf: the d of the ray of
\* column x.  A column never written, and any column off the screen, holds
\* undefined, here the fraction 0 / 0.
UndefinedDepth == [n |-> 0, over |-> 0]

DepthsAt(buf, x) ==
    IF ~buf.written \/ x < 0 \/ x >= CAMERA_WIDTH THEN {UndefinedDepth}
    ELSE CASE buf.facing.turned = 0 ->
            {r.d : r \in RayRuns(RayStart(buf.x, buf.y,
                                          ColumnRay(buf.facing, x).dx,
                                          ColumnRay(buf.facing, x).dy))}

\* "ty < depth_buffer[x]" with d in depth_buffer[x]; false for undefined
DepthLess(ty, d) ==
    IF d.over = 0 THEN FALSE
    ELSE IF d.over > 0 THEN ty * (d.over \div UNIT) < RAY_SCALE * d.n
    ELSE ty * ((-d.over) \div UNIT) < RAY_SCALE * (-d.n)

\* Math.round(a / b), halves going up; b is not 0
RoundedQuotient(a, b) ==
    IF b > 0 THEN (2 * a + b) \div (2 * b) ELSE (-2 * a - b) \div (-2 * b)

\* ty of the entity id: how far before the camera it is, along the facing
SpriteDepth(C, id) ==
    camera_facing.x * (C["pos"][id].x - camera_x)
        + camera_facing.y * (C["pos"][id].y - camera_y)

\* tx of the entity id, times CAMERA_PLANE_LENGTH: how far to the right
SpriteAcross(C, id) ==
    camera_facing.x * (C["pos"][id].y - camera_y)
        - camera_facing.y * (C["pos"][id].x - camera_x)

\* sx, sprite_width, draw_start_x and draw_end_x of the entity id; ty is
\* not 0
SpriteSpan(C, id) ==
    LET ty == SpriteDepth(C, id)
        sx == RoundedQuotient(
                  (CAMERA_WIDTH \div (2 * CAMERA_PLANE_LENGTH.n))
                      * (CAMERA_PLANE_LENGTH.n * ty
                            + CAMERA_PLANE_LENGTH.over * SpriteAcross(C, id)),
                  ty)
        sprite_width == Abs(RoundedQuotient(CAMERA_HEIGHT * UNIT, ty))
    IN [sx |-> sx, sprite_width |-> sprite_width,
        draw_start_x |-> RoundedQuotient(2 * sx - sprite_width, 2),
        draw_end_x |-> RoundedQuotient(2 * sx + sprite_width, 2)]

\* The columns the loop "for (let x = draw_start_x; x < draw_end_x; ++x)"
\* goes over for the entity id.  With ty = 0 the bounds are infinite or NaN
\* and the loop has no iteration; the bail-out on the height never applies,
\* the one on the width does.
SpriteColumns(C, id) ==
    IF SpriteDepth(C, id) = 0 THEN {}
    ELSE LET span == SpriteSpan(C, id)
         IN IF span.draw_start_x > CAMERA_WIDTH \/ span.draw_end_x < 0 THEN {}
            ELSE span.draw_start_x..(span.draw_end_x - 1)

\* A variant of StripDrawn without the test of the depth (C34 depends on it)
StripDrawnOverWalls(ty, x, d) == ty > 0 /\ x > 0 /\ x < CAMERA_WIDTH

\* "ty > 0 && x > 0 && x < CAMERA_WIDTH && ty < depth_buffer[x]", with d
\* what depth_buffer[x] holds
StripDrawn(ty, x, d) == ty > 0 /\ x > 0 /\ x < CAMERA_WIDTH /\ DepthLess(ty, d)

\* The columns at which the test reads depth_buffer for the entity id
ColumnsRead(C, id) ==
    {x \in SpriteColumns(C, id) : SpriteDepth(C, id) > 0 /\ x > 0 /\ x < CAMERA_WIDTH}

\* What system_render_entities may find in depth_buffer at the columns it
\* reads: one d a column, as functions of the column
DepthsSeen(buf, read) ==
    LET tied == {x \in read : Cardinality(DepthsAt(buf, x)) > 1}
        one == [x \in read \ tied |-> CHOOSE d \in DepthsAt(buf, x) : TRUE]
    IN {[x \in read |-> IF x \in tied THEN pick[x] ELSE one[x]] :
            pick \in {p \in [tied -> UNION {DepthsAt(buf, x) : x \in tied}] :
                         \A x \in tied : p[x] \in DepthsAt(buf, x)}}

\* The strips drawn for the entity id, as columns
StripsOf(C, id, seen) ==
    {x \in SpriteColumns(C, id) :
        StripDrawn(SpriteDepth(C, id), x,
                   IF x \in DOMAIN seen THEN seen[x] ELSE UndefinedDepth)}

\* system_render_entities(), with the strips it draws.  The order the
\* sprites are drawn in matters to the canvas alone.
system_render_entities_run(dt) ==
    /\ LET sprites == IF "sprite" \in DOMAIN components
                      THEN DOMAIN components["sprite"] ELSE {}
       IN \E seen \in DepthsSeen(depth_buffer,
                                 UNION {ColumnsRead(components, id) : id \in sprites}) :
             hist' = HistEvents("system_render_entities", dt,
                                [k \in 1..Cardinality(sprites) |->
                                    [id |-> IdsInOrder(sprites)[k],
                                     strips |-> StripsOf(components,
                                                         IdsInOrder(sprites)[k], seen)]],
                                <<>>, {})
    /\ UNCHANGED <<game_state, game_timer, map_width, map_height, map_tiles,
                   spatial_width, spatial_height, spatial_tiles, camera_x, camera_y, camera_facing,
                   player_id, components, heap, next_entity_id>>

call_system_render_entities_strips ==
    /\ AtSystem("system_render_entities")
    /\ system_render_entities_run(frame_dt)
    /\ Ran("system_render_entities")

(* Frames of a game in play on the map the program generates, with the       *)
(* strips of the sprites.  The player (1) stands in the middle of the map    *)
(* and faces along x or up the centre column; the blast of a slime that has  *)
(* died (2) is in sight, half behind a pillar, or beside or behind the       *)
(* player; a slime (3) is two tiles behind the player.                       *)

\* The player's facing: along x, and up the column
RenderFacings == {0, -100}

\* The place of the blast, in twentieths of a tile: (12, 10.5), (14, 8.4),
\* (10.5, 7) and (8.5, 10.5)
RenderBooms ==
    { [x |-> 240, y |-> 210], [x |-> 280, y |-> 168], [x |-> 210, y |-> 140],
      [x |-> 170, y |-> 210] }

RenderScene(f, at) ==
    WithBoundingBoxes(
        spawn_prefab_entity(
            spawn_prefab_entity(
                spawn_prefab_entity([k \in {} |-> NoGroup], 1, "player",
                                    At(210), At(210), f),
                2, "boom", At(at.x), At(at.y), 0),
            3, "slime", At(210) - 2 * UNIT * Cos(f), At(210) - 2 * UNIT * Sin(f), 0))

InitRender ==
    /\ game_state = "play"
    /\ game_timer = 0
    /\ map_width = PROGRAM_MAP_SIZE
    /\ map_height = PROGRAM_MAP_SIZE
    /\ \E g \in Generators :
          map_tiles = GeneratedTiles(g, PROGRAM_MAP_SIZE, PROGRAM_MAP_SIZE)
    /\ spatial_width = CeilBucket(PROGRAM_MAP_SIZE)
    /\ spatial_height = CeilBucket(PROGRAM_MAP_SIZE)
    /\ camera_x = At(210)
    /\ camera_y = At(210)
    /\ player_id = 1
    /\ \E f \in RenderFacings, at \in RenderBooms :
          /\ TileValue(idx(FloorTile(At(at.x)), FloorTile(At(at.y)), map_width)) = 0
          /\ components = RenderScene(f, at)
    /\ spatial_tiles = InsertBodies(InitSpatial(PROGRAM_MAP_SIZE, PROGRAM_MAP_SIZE),
                                    components, IdsInOrder(DOMAIN components["body"]))
    /\ heap = [r \in PrefabRefs \cup {"scenario"} |-> <<>>]
    /\ next_entity_id = 4
    /\ hist = [op |-> "play", phys |-> NoPhysics, ticks |-> 0, removes |-> 0,
               returned |-> <<>>, despawned |-> {}, dt |-> 0, pre |-> <<>>,
               events |-> <<>>, visited |-> <<>>]
    /\ FrameIdle

NextRender ==
    \/ frame
    \/ call_system_input
    \/ call_system_behavior
    \/ call_system_physics
    \/ call_system_hazard
    \/ call_system_mortal
    \/ call_system_ttl
    \/ call_system_game
    \/ call_system_animation
    \/ call_system_tween
    \/ call_system_camera
    \/ call_system_render_map
    \/ call_system_render_entities_strips
    \/ call_system_render_ui

SpecRender == InitRender /\ [][NextRender]_vars

----------------------------------------------------------------------------
(* spawn_prefab_entity(prefabKey, x, y, facing) and remove_entity(id) as     *)
(* functions of their arguments, on the store of a game in play.  hist.pre   *)
(* is what the call was given, and for remove_entity the store it found.     *)

\* The most calls of spawn_prefab_entity the model follows
MaxSpawnCalls == 2

\* The coordinates and the facings offered: 0, and values the program
\* passes (the centre of the map, a quarter turn)
SpawnCoordinates == {0, At(210)}
SpawnFacings == {0, -100}

InitStore ==
    /\ game_state = "play"
    /\ game_timer = 0
    /\ map_width = PROGRAM_MAP_SIZE
    /\ map_height = PROGRAM_MAP_SIZE
    /\ map_tiles = GeneratedTiles(0, PROGRAM_MAP_SIZE, PROGRAM_MAP_SIZE)
    /\ spatial_width = CeilBucket(PROGRAM_MAP_SIZE)
    /\ spatial_height = CeilBucket(PROGRAM_MAP_SIZE)
    /\ spatial_tiles = InitSpatial(PROGRAM_MAP_SIZE, PROGRAM_MAP_SIZE)
    /\ camera_x = At(210)
    /\ camera_y = At(210)
    /\ player_id = 0
    /\ components = [k \in {} |-> NoGroup]
    /\ heap = [r \in PrefabRefs \cup {"scenario"} |-> <<>>]
    /\ next_entity_id = 1
    /\ hist = [op |-> "play", phys |-> NoPhysics, ticks |-> 0, removes |-> 0,
               returned |-> <<>>, despawned |-> {}, dt |-> 0, pre |-> <<>>,
               events |-> <<>>, visited |-> <<>>]
    /\ FrameIdle

\* spawn_prefab_entity(prefabKey, x, y, facing)
spawn_prefab_entity_call ==
    /\ Len(hist.returned) < MaxSpawnCalls
    /\ \E prefabKey \in DOMAIN PREFABS :
       \E x \in SpawnCoordinates, y \in SpawnCoordinates, facing \in SpawnFacings :
          /\ components' = spawn_prefab_entity(components, next_entity_id, prefabKey,
                                               x, y, facing)
          /\ hist' = [HistAfter("spawn_prefab_entity", NoPhysics, hist.ticks,
                                <<next_entity_id>>, {})
                        EXCEPT !.pre = [prefabKey |-> prefabKey, x |-> x, y |-> y,
                                        facing |-> facing]]
    /\ next_entity_id' = next_entity_id + 1
    /\ UNCHANGED <<game_state, game_timer, map_width, map_height, map_tiles,
                   spatial_width, spatial_height, spatial_tiles, camera_x, camera_y, camera_facing,
                   player_id, heap>>
    /\ UNCHANGED frameVars

\* remove_entity(id), for an id that spawn_prefab_entity has returned or
\* will return next
remove_entity_call ==
    /\ hist.removes < MaxRemoves
    /\ \E id \in 1..next_entity_id :
          /\ components' = remove_entity(components, id)
          /\ hist' = [HistAfter("remove_entity", NoPhysics, hist.ticks, <<>>, {id})
                        EXCEPT !.pre = [id |-> id, components |-> components]]
    /\ UNCHANGED <<game_state, game_timer, map_width, map_height, map_tiles,
                   spatial_width, spatial_height, spatial_tiles, camera_x, camera_y, camera_facing,
                   player_id, heap, next_entity_id>>
    /\ UNCHANGED frameVars

NextStore ==
    \/ spawn_prefab_entity_call
    \/ remove_entity_call

SpecStore == InitStore /\ [][NextStore]_vars

----------------------------------------------------------------------------
(* system_ttl over the frames of a game in play.  The store holds the        *)
(* player (1), the effect of a death (2, a boom) and the damage trigger of   *)
(* an attack (3, a dmg_enemy), each as spawned or some frames old.  A call   *)
(* with dt = 0 is the frame whose time is that of the frame before it.       *)

\* The frame times (1/100 s) of the frames that run the systems
TtlDts == {5, 10, 15}

\* What has passed of the two lifetimes (1/100 s)
TtlAges == {0, 10, 20}

\* The store with the two entities of ages a and b
TtlScene(a, b) ==
    [spawn_prefab_entity(
        spawn_prefab_entity(
            spawn_prefab_entity([k \in {} |-> NoGroup], 1, "player",
                                At(210), At(210), 0),
            2, "boom", At(210), At(150), 0),
        3, "dmg_enemy", At(210), At(190), 0)
     EXCEPT !["ttl"][2].d = @ - a, !["ttl"][3].d = @ - b]

InitTtl ==
    /\ game_state = "play"
    /\ game_timer = 0
    /\ map_width = PROGRAM_MAP_SIZE
    /\ map_height = PROGRAM_MAP_SIZE
    /\ map_tiles = GeneratedTiles(0, PROGRAM_MAP_SIZE, PROGRAM_MAP_SIZE)
    /\ spatial_width = CeilBucket(PROGRAM_MAP_SIZE)
    /\ spatial_height = CeilBucket(PROGRAM_MAP_SIZE)
    /\ spatial_tiles = InitSpatial(PROGRAM_MAP_SIZE, PROGRAM_MAP_SIZE)
    /\ camera_x = At(210)
    /\ camera_y = At(210)
    /\ player_id = 1
    /\ \E a \in TtlAges, b \in TtlAges : components = TtlScene(a, b)
    /\ heap = [r \in PrefabRefs \cup {"scenario"} |-> <<>>]
    /\ next_entity_id = 4
    /\ hist = [op |-> "play", phys |-> NoPhysics, ticks |-> 0, removes |-> 0,
               returned |-> <<>>, despawned |-> {}, dt |-> 0, pre |-> <<>>,
               events |-> <<>>, visited |-> <<>>]
    /\ FrameIdle

\* system_ttl(dt) in a frame with dt > 0
system_ttl == \E dt \in TtlDts : system_ttl_dt(dt) /\ UNCHANGED frameVars

\* system_ttl(0)
system_ttl_zero == system_ttl_dt(0) /\ UNCHANGED frameVars

NextTtl ==
    \/ system_ttl
    \/ system_ttl_zero

\* Frames with dt > 0 keep coming
SpecTtl == InitTtl /\ [][NextTtl]_vars /\ WF_vars(system_ttl)

----------------------------------------------------------------------------
(* Numbers as the program has them: IEEE 754 binary64, for zero and the      *)
(* positive normal numbers.  A number is [e, m]: m is the 53 bits of its     *)
(* significand, first bit first (the first is 1), and e is the exponent of   *)
(* the first bit, so that 0x1.8p+0 (1.5) is e = 0 and m = 1, 1, 0, ..., 0.   *)
(* Zero has m = <<>>.  Sums and differences are computed exactly and rounded *)
(* to the nearest number, ties to the even significand, as the processor     *)
(* does.                                                                     *)

SIGNIFICAND == 53

FZero == [e |-> 0, m |-> <<>>]

\* The four bits of each hexadecimal digit of hex, in order
HexBits(hex) ==
    [k \in 1..(4 * Len(hex)) |-> (hex[(k - 1) \div 4 + 1] \div (2 ^ (3 - ((k - 1) % 4)))) % 2]

\* The number written 0x1.<hex>p<e> (13 digits)
Double(e, hex) == [e |-> e, m |-> <<1>> \o HexBits(hex)]

\* The bit of a for the exponent ex
BitAt(a, ex) == IF a.e - ex + 1 \in 1..Len(a.m) THEN a.m[a.e - ex + 1] ELSE 0

\* The bits of a from exponent top down to exponent low
Spread(a, top, low) == [k \in 1..(top - low + 1) |-> BitAt(a, top - k + 1)]

\* The carry into bit k of x + y + carry, for bits x and y of one length: a
\* bit behind k makes a carry (1 + 1), or carry comes in at the end, and
\* every bit between passes it on (0 + 1)
CarryInto(x, y, k, carry) ==
    IF \/ \E j \in (k + 1)..Len(x) :
             x[j] + y[j] = 2 /\ \A i \in (k + 1)..(j - 1) : x[i] + y[i] = 1
       \/ carry = 1 /\ \A i \in (k + 1)..Len(x) : x[i] + y[i] >= 1
    THEN 1 ELSE 0

\* x + y + carry; the result is one bit longer
AddBits(x, y, carry) ==
    [k \in 1..(Len(x) + 1) |->
        IF k = 1 THEN CarryInto(x, y, 0, carry)
        ELSE (x[k - 1] + y[k - 1] + CarryInto(x, y, k - 1, carry)) % 2]

\* The borrow from bit k of x - y: a bit behind k borrows (0 - 1) and every
\* bit between passes it on (0 - 0, 1 - 1)
BorrowFrom(x, y, k) ==
    IF \E j \in (k + 1)..Len(x) :
          x[j] < y[j] /\ \A i \in (k + 1)..(j - 1) : x[i] = y[i]
    THEN 1 ELSE 0

\* x - y for bits x >= y of one length
SubBits(x, y) ==
    [k \in 1..Len(x) |-> (x[k] - y[k] - BorrowFrom(x, y, k) + 2) % 2]

\* The place of the first 1 of bits, 0 when there is none
FirstOne(bits) ==
    IF \A k \in 1..Len(bits) : bits[k] = 0 THEN 0
    ELSE CHOOSE k \in 1..Len(bits) : bits[k] = 1 /\ \A j \in 1..(k - 1) : bits[j] = 0

\* Round to nearest, ties to even: the significand sig (first bit 1, more
\* than 53 bits) of a number with exponent e
RoundSignificand(e, sig) ==
    LET kept == SubSeq(sig, 1, SIGNIFICAND)
        rest == SubSeq(sig, SIGNIFICAND + 1, Len(sig))
        up == /\ rest[1] = 1
              /\ \/ kept[SIGNIFICAND] = 1
                 \/ \E k \in 2..Len(rest) : rest[k] = 1
        next == AddBits(kept, [k \in 1..SIGNIFICAND |-> 0], 1)
    IN IF ~up THEN [e |-> e, m |-> kept]
       ELSE IF next[1] = 1 THEN [e |-> e + 1, m |-> SubSeq(next, 1, SIGNIFICAND)]
       ELSE [e |-> e, m |-> Tail(next)]

\* The number nearest to the exact value of bits, whose first bit has
\* exponent top
Rounded(top, bits) ==
    LET n == FirstOne(bits)
        sig == SubSeq(bits, n, Len(bits))
    IN IF n = 0 THEN FZero
       ELSE IF Len(sig) <= SIGNIFICAND
       THEN [e |-> top - n + 1,
             m |-> sig \o [k \in 1..(SIGNIFICAND - Len(sig)) |-> 0]]
       ELSE RoundSignificand(top - n + 1, sig)

\* The exponents of the first and the last bit of a and b together
TopOf(a, b) == IF a.e > b.e THEN a.e ELSE b.e
LowOf(a, b) ==
    IF a.e - Len(a.m) < b.e - Len(b.m) THEN a.e - Len(a.m) + 1 ELSE b.e - Len(b.m) + 1

\* a + b
Fadd(a, b) ==
    IF a.m = <<>> THEN b
    ELSE IF b.m = <<>> THEN a
    ELSE Rounded(TopOf(a, b) + 1,
                 AddBits(Spread(a, TopOf(a, b), LowOf(a, b)),
                         Spread(b, TopOf(a, b), LowOf(a, b)), 0))

\* a - b, for a >= b
Fsub(a, b) ==
    IF b.m = <<>> THEN a
    ELSE Rounded(TopOf(a, b),
                 SubBits(Spread(a, TopOf(a, b), LowOf(a, b)),
                         Spread(b, TopOf(a, b), LowOf(a, b))))

\* a * b, for a or b zero
Ftimes(a, b) == CASE a.m = <<>> \/ b.m = <<>> -> FZero

\* a / 2
Fhalf(a) == IF a.m = <<>> THEN a ELSE [a EXCEPT !.e = @ - 1]

\* The value of bits as an integer
RECURSIVE BitsValue(_)
BitsValue(bits) ==
    IF bits = <<>> THEN 0
    ELSE 2 * BitsValue(SubSeq(bits, 1, Len(bits) - 1)) + bits[Len(bits)]

\* Math.floor(a)
Ffloor(a) == IF a.m = <<>> \/ a.e < 0 THEN 0 ELSE BitsValue(SubSeq(a.m, 1, a.e + 1))

----------------------------------------------------------------------------
(* system_physics on one body at rest, in the program's numbers: the map is  *)
(* open but for tile (1, 5), and the store holds one entity, 1, with a       *)
(* position and a square body that stands still clear of the walls and of    *)
(* the map's edges.                                                          *)

\* 0.1 (dt), 0.4 and 0.8 (the sizes of the player's and of a slime's body)
F01 == Double(-4, <<9, 9, 9, 9, 9, 9, 9, 9, 9, 9, 9, 9, 10>>)
F04 == Double(-2, <<9, 9, 9, 9, 9, 9, 9, 9, 9, 9, 9, 9, 10>>)
F08 == Double(-1, <<9, 9, 9, 9, 9, 9, 9, 9, 9, 9, 9, 9, 10>>)

\* The places offered: 1.45, 1.5, 1.55, 2.45, 2.5 and 3.5
RestPlaces ==
    { Double(0, <<7, 3, 3, 3, 3, 3, 3, 3, 3, 3, 3, 3, 3>>),
      Double(0, <<8, 0, 0, 0, 0, 0, 0, 0, 0, 0, 0, 0, 0>>),
      Double(0, <<8, 12, 12, 12, 12, 12, 12, 12, 12, 12, 12, 12, 13>>),
      Double(1, <<3, 9, 9, 9, 9, 9, 9, 9, 9, 9, 9, 9, 10>>),
      Double(1, <<4, 0, 0, 0, 0, 0, 0, 0, 0, 0, 0, 0, 0>>),
      Double(1, <<12, 0, 0, 0, 0, 0, 0, 0, 0, 0, 0, 0, 0>>) }

RestSizes == {F04, F08}

\* update_bounding_box(pos, body)
BoundingBoxOf(pos, body) ==
    [x |-> Fsub(pos.x, Fhalf(body.w)), y |-> Fsub(pos.y, Fhalf(body.h)),
     w |-> body.w, h |-> body.h]

\* The tiles the detection loop visits for bb
TilesUnder(bb) ==
    CellsInOrder(Ffloor(bb.x), Ffloor(bb.y), Ffloor(Fadd(bb.x, bb.w)),
                 Ffloor(Fadd(bb.y, bb.h)))

\* Neither branch of "Constrain physical bodies to the map" is taken for bb
\* (no number here is below zero), and no tile under bb is a wall
StandsClear(bb) ==
    /\ Ffloor(Fadd(bb.x, bb.w)) < map_width
    /\ Ffloor(Fadd(bb.y, bb.h)) < map_height
    /\ \A k \in 1..Len(TilesUnder(bb)) :
          ~TileIsWall(idx(TilesUnder(bb)[k].x, TilesUnder(bb)[k].y, map_width))

\* The bounding box in whole tiles, which go to the same buckets
InTiles(bb) ==
    [x |-> Ffloor(bb.x) * UNIT, y |-> Ffloor(bb.y) * UNIT,
     w |-> (Ffloor(Fadd(bb.x, bb.w)) - Ffloor(bb.x)) * UNIT,
     h |-> (Ffloor(Fadd(bb.y, bb.h)) - Ffloor(bb.y)) * UNIT]

\* "Update body's position"
MovedPos(pos, body, dt) ==
    [pos EXCEPT !.x = Fadd(@, Ftimes(body.vx, dt)), !.y = Fadd(@, Ftimes(body.vy, dt))]

\* "Sync position to bounding box"
SyncedPos(pos, body, bb) ==
    [pos EXCEPT !.x = Fadd(bb.x, Fhalf(body.w)), !.y = Fadd(bb.y, Fhalf(body.h))]

\* The store after the loop body for entity id, whose bounding box bb stands
\* clear
RestedStore(C, id, dt, bb) ==
    [C EXCEPT !["pos"][id] = SyncedPos(MovedPos(@, C["body"][id], dt), C["body"][id], bb),
              !["body"][id] = [@ EXCEPT !.e = 0, !.bb = bb]]

\* system_physics(dt) with one body, entity 1, that stands clear: nothing is
\* constrained or resolved, and the body has no neighbor
system_physics_rest_dt(dt) ==
    /\ hist.ticks < MaxTicks
    /\ DOMAIN components["body"] = {1}
    /\ \E bb \in {BoundingBoxOf(MovedPos(components["pos"][1], components["body"][1], dt),
                                 components["body"][1])} :
          /\ StandsClear(bb)
          /\ components' = RestedStore(components, 1, dt, bb)
          /\ spatial_tiles' = insert_spatial_bounds(clear_spatial_map(spatial_tiles), 1,
                                                    InTiles(bb))
          /\ hist' = HistAfter("system_physics",
                               [dt |-> dt, pre |-> components, mid |-> <<bb>>,
                                evals |-> <<>>, pairs |-> <<>>, steps |-> <<>>],
                               hist.ticks + 1, <<>>, {})
    /\ heap' = [heap EXCEPT ![components["body"][1].c] = <<>>]
    /\ UNCHANGED <<game_state, game_timer, map_width, map_height, map_tiles,
                   spatial_width, spatial_height, camera_x, camera_y, camera_facing, player_id,
                   next_entity_id>>

system_physics_rest == system_physics_rest_dt(F01) /\ UNCHANGED frameVars

\* A body of size w by w, at rest
RestBody(w) ==
    [PrefabBody(w, w, 0, 0, GROUP_PLAYER, "scenario") EXCEPT !.vx = FZero, !.vy = FZero]

InitRest ==
    /\ game_state = "play"
    /\ game_timer = 0
    /\ map_width = MapSize
    /\ map_height = MapSize
    /\ map_tiles = ScenarioTiles
    /\ spatial_width = CeilBucket(MapSize)
    /\ spatial_height = CeilBucket(MapSize)
    /\ spatial_tiles = InitSpatial(MapSize, MapSize)
    /\ camera_x = (MapSize \div 2) * UNIT + UNIT \div 2
    /\ camera_y = (MapSize \div 2) * UNIT + UNIT \div 2
    /\ player_id = 0
    /\ \E x \in RestPlaces, y \in RestPlaces, w \in RestSizes :
          components =
              add_entity_component(
                  add_entity_component([k \in {} |-> NoGroup], 1, "pos",
                                       [x |-> x, y |-> y, f |-> 0]),
                  1, "body", RestBody(w))
    /\ heap = [r \in PrefabRefs \cup {"scenario"} |-> <<>>]
    /\ next_entity_id = 2
    /\ hist = [op |-> "rest", phys |-> NoPhysics, ticks |-> 0, removes |-> 0,
               returned |-> <<>>, despawned |-> {}, dt |-> 0, pre |-> <<>>,
               events |-> <<>>, visited |-> <<>>]
    /\ FrameIdle

NextRest == system_physics_rest

SpecRest == InitRest /\ [][NextRest]_vars

----------------------------------------------------------------------------
(* What the properties read *)

\* components.body, empty when there is none
Bodies == IF "body" \in DOMAIN components THEN components["body"] ELSE NoGroup

\* components.pos, empty when there is none
Positions == IF "pos" \in DOMAIN components THEN components["pos"] ELSE NoGroup

\* body.c of entity id, as the program reads it: the array the field refers to
Contacts(id) == heap[Bodies[id].c]

\* The state is the one system_physics left, and it had bodies to move
AfterTick == hist.op = "system_physics" /\ DOMAIN hist.phys.mid # {}

\* The tick that just ended was the first one on the scenario body at
\* (0.9, 5) with velocity (5, 0) and bounce b, with dt = 0.1
ScenarioTicked(b) ==
    /\ hist.op = "system_physics"
    /\ hist.ticks = 1
    /\ hist.phys.dt = 10
    /\ map_tiles = ScenarioTiles
    /\ DOMAIN hist.phys.mid = {1}
    /\ hist.phys.pre["pos"][1] = ScenarioPos(At(18), At(100))
    /\ hist.phys.pre["body"][1] = ScenarioBody(5 * UNIT, 0, b)

\* components.beh before the last system, empty when there was none
PreBehaviors ==
    IF "beh" \in DOMAIN hist.pre.components THEN hist.pre.components["beh"] ELSE NoGroup

\* What the last system_behavior did for entity id, and the transitions
\* among it
EventsOf(id) == SelectSeq(hist.events, LAMBDA ev : ev.id = id)
RulesFired(id) == SelectSeq(hist.events, LAMBDA ev : ev.id = id /\ ev.what = "rule")

\* The transitions of entity id's model
RulesOf(id) == BEHAVIORS[PreBehaviors[id].m].t

\* The hooks a transition to state `to` from state `from` has to run, as
\* events of entity id, around the event of transition k
EventsOfRule(id, from, k, to) ==
    (IF "x" \in StateHooks[from] THEN <<BehaviorEvent(id, "exit", from, 0)>> ELSE <<>>)
    \o <<BehaviorEvent(id, "rule", to, k)>>
    \o (IF "e" \in StateHooks[to] THEN <<BehaviorEvent(id, "enter", to, 0)>> ELSE <<>>)

\* The state system_behavior evaluated entity id's transitions in: the store
\* it found, with the entity's elapsed time incremented
Evaluated(id) ==
    Elapse([components |-> hist.pre.components, player_id |-> player_id], id, hist.dt)

----------------------------------------------------------------------------
(* Properties *)

\* C1: after a physics tick, for all entities A and B with a body, if A's
\* contact list contains B then B's contact list contains A.
C1_ContactsSymmetric ==
    AfterTick =>
        \A a \in DOMAIN Bodies : \A b \in DOMAIN Bodies :
            b \in Range(Contacts(a)) => a \in Range(Contacts(b))

\* C2: the component records of an entity are its own: no two entities'
\* bodies refer to the same contact array, and the contact array of a
\* template in PREFABS never changes (it stays empty, as it is declared).
C2_RecordsNotShared ==
    /\ \A a \in DOMAIN Bodies : \A b \in DOMAIN Bodies :
          a # b => Bodies[a].c # Bodies[b].c
    /\ \A k \in PrefabRefs : heap[k] = <<>>

\* C3: after a physics tick, a body's contact list holds only ids of other
\* bodies whose bounding box overlapped its own in this tick's narrow phase:
\* never its own id, never a body it did not overlap.
C3_ContactsThisTickOnly ==
    AfterTick =>
        \A a \in DOMAIN Bodies : \A b \in Range(Contacts(a)) :
            /\ b # a
            /\ b \in DOMAIN hist.phys.mid
            /\ rect_overlap(hist.phys.mid[a], hist.phys.mid[b])

\* C4: after a physics tick every body's bounding box lies within the map.
C4_BodiesInsideMap ==
    AfterTick =>
        \A a \in DOMAIN Bodies :
            /\ Bodies[a].bb.x >= 0
            /\ Bodies[a].bb.y >= 0
            /\ Bodies[a].bb.x + Bodies[a].bb.w <= map_width * UNIT
            /\ Bodies[a].bb.y + Bodies[a].bb.h <= map_height * UNIT

C6_WallStopPushedAlongY ==
    ScenarioTicked(0) =>
        /\ Bodies[1].vx = 5 * UNIT
        /\ Bodies[1].vy = 0
        /\ Bodies[1].e = 1
        /\ Bodies[1].bb = [x |-> At(24), y |-> At(92), w |-> At(8), h |-> At(8)]
        /\ Positions[1] = ScenarioPos(At(28), At(96))
        /\ ~rect_overlap(Bodies[1].bb, TileBB(1, 5))

\* C6, its case: the wall-stop scenario has been ticked.
C6_WallStopTicked == ScenarioTicked(0) /\ Bodies[1].e = 1

\* C6, as stated: the wall-stop scenario ends the tick with vx = 0 and the
\* bounding box not overlapping tile (1, 5).
C6_WallStopAsStated ==
    ScenarioTicked(0) =>
        /\ Bodies[1].vx = 0
        /\ ~rect_overlap(Bodies[1].bb, TileBB(1, 5))

\* C7, as the code has it: the bounce scenario (bounce 1) ends the tick with
\* vx still 5: the overlap with tile (1, 5) is wider than high, so it is vy,
\* which is 0, that is multiplied by -bounce, and the body is moved up.
C7_BounceKeepsVx ==
    ScenarioTicked(1) =>
        /\ Bodies[1].vx = 5 * UNIT
        /\ Bodies[1].vy = 0
        /\ Bodies[1].bb = [x |-> At(24), y |-> At(92), w |-> At(8), h |-> At(8)]

\* C7, its case: the bounce scenario has been ticked.
C7_BounceTicked == ScenarioTicked(1) /\ Bodies[1].e = 1

\* C7, as stated: the bounce scenario ends the tick with vx = -5.
C7_BounceAsStated == ScenarioTicked(1) => Bodies[1].vx = -5 * UNIT

\* C8: hash_ids gives different values for any two distinct unordered pairs
\* of ids of bodies that are alive together, and so a tick evaluates every
\* pair of bodies whose bounding boxes overlap in its narrow phase.
C8_PairHashCollisionFree ==
    /\ \A a \in DOMAIN Bodies : \A b \in DOMAIN Bodies :
       \A c \in DOMAIN Bodies : \A d \in DOMAIN Bodies :
          (a < b /\ c < d /\ <<a, b>> # <<c, d>>) => hash_ids(a, b) # hash_ids(c, d)
    /\ AfterTick =>
          \A a \in DOMAIN hist.phys.mid : \A b \in DOMAIN hist.phys.mid :
              (a # b /\ rect_overlap(hist.phys.mid[a], hist.phys.mid[b])) =>
                  \/ <<a, b>> \in Range(hist.phys.evals)
                  \/ <<b, a>> \in Range(hist.phys.evals)

\* C9: within one physics tick the narrow phase evaluates each unordered pair
\* of distinct bodies at most once, and never a body with itself.
C9_PairsEvaluatedOnce ==
    AfterTick =>
        /\ \A k \in 1..Len(hist.phys.evals) :
              hist.phys.evals[k][1] # hist.phys.evals[k][2]
        /\ \A j \in 1..Len(hist.phys.evals) : \A k \in 1..Len(hist.phys.evals) :
              j # k =>
                 /\ hist.phys.evals[j] # hist.phys.evals[k]
                 /\ hist.phys.evals[j] # <<hist.phys.evals[k][2], hist.phys.evals[k][1]>>

\* C9, its case: after a tick two distinct bodies are together in two buckets
\* of the spatial hash, and so each met the other twice among its neighbours.
C9_TwoBodiesShareTwoBuckets ==
    /\ AfterTick
    /\ \E i \in 1..Len(spatial_tiles) : \E j \in 1..Len(spatial_tiles) :
          /\ i < j
          /\ \E a \in Range(spatial_tiles[i]) : \E b \in Range(spatial_tiles[i]) :
                /\ a # b
                /\ a \in Range(spatial_tiles[j])
                /\ b \in Range(spatial_tiles[j])

\* C10: an id that was despawned (remove_entity, clear_entities) is a key of
\* no component mapping, and spawn_prefab_entity has returned no id twice,
\* also across restarts of the game.
C10_IdsNeverReused ==
    /\ hist.despawned \cap EntityIds(components) = {}
    /\ \A j \in 1..Len(hist.returned) : \A k \in 1..Len(hist.returned) :
          j # k => hist.returned[j] # hist.returned[k]

\* C10, its case: the game was lost and restarted (the player of this game
\* is not the first entity), entities were despawned on the way, and
\* spawn_prefab_entity has returned an id since.
C10_SpawnedAfterRestart ==
    /\ game_state = "play"
    /\ player_id > 1
    /\ player_id \in EntityIds(components)
    /\ hist.despawned # {}
    /\ Len(hist.returned) >= 2

\* The last frame has run its systems and has returned
FrameDone == flog.frames > 0 /\ flog.entered /\ sys_index = 0

\* The entities system_hazard has hit in the last frame
HitIds == {flog.hits[n].target : n \in {k \in 1..Len(flog.hits) : flog.hits[k].what = "hit"}}

\* Those it has left with no hit points
Struck == {id \in HitIds : flog.struck.components["mor"][id].h <= 0}

\* The effects system_mortal has spawned in the last frame for entity id
EffectsFor(id) ==
    {flog.deaths[n].boom : n \in {k \in 1..Len(flog.deaths) : flog.deaths[k].id = id}}

\* Entity b is a death effect at the place entity id had when system_mortal ran
IsEffectAt(b, id) ==
    /\ has_entity_component(components, b, "pos")
    /\ has_entity_component(components, b, "ttl")
    /\ ~has_entity_component(flog.struck.components, b, "pos")
    /\ components["sprite"][b].i \in {3, 4, 5}
    /\ components["pos"][b].x = flog.struck.components["pos"][id].x
    /\ components["pos"][b].y = flog.struck.components["pos"][id].y

\* system_hazard has just run in a frame
AfterHazard == sys_index > 0 /\ hist.op = "system_hazard"

\* The bodies whose bounding box that of entity z overlapped in the narrow
\* phase of the frame's physics tick, with groups that collide
Overlapped(z) ==
    {b \in DOMAIN hist.phys.mid \ {z} :
        /\ GroupsCollide(flog.touched.components["body"][z].g,
                         flog.touched.components["body"][b].g)
        /\ rect_overlap(hist.phys.mid[z], hist.phys.mid[b])}

\* The contact list system_hazard found for hazard z
TouchedBy(z) == flog.touched.heap[flog.touched.components["body"][z].c]

\* The damage of the hazards of zs that overlapped a body and have entity m
\* first in their contact list
RECURSIVE DamageDue(_, _)
DamageDue(m, zs) ==
    IF zs = <<>> THEN 0
    ELSE DamageDue(m, Tail(zs))
         + (IF Overlapped(Head(zs)) # {} /\ TouchedBy(Head(zs))[1] = m
            THEN flog.touched.components["haz"][Head(zs)].d ELSE 0)

\* The hazards system_hazard found
HazardsFound ==
    IF "haz" \in DOMAIN flog.touched.components
    THEN DOMAIN flog.touched.components["haz"] ELSE {}

\* The number of calls of sys in the last frame
CallsOf(sys) == Len(SelectSeq(flog.ran, LAMBDA r : r = sys))

\* C11: when system_behavior finds an entity in a state with a timed
\* transition whose duration its elapsed time reaches exactly in this tick,
\* that transition fires: the exit hook of the old state (if it has one),
\* then the enter hook of the new state run once each, nothing else happens
\* to the entity (no second transition), and the entity is left in the new
\* state with elapsed 0.
C11_TimedRuleFiresOnce ==
    hist.op = "system_behavior" =>
        \A id \in DOMAIN PreBehaviors :
            PreBehaviors[id].s # "undefined" =>
                \A k \in 1..Len(RulesOf(id)) :
                    (/\ RulesOf(id)[k].f = PreBehaviors[id].s
                     /\ RulesOf(id)[k].d # NoDuration
                     /\ PreBehaviors[id].e + hist.dt = RulesOf(id)[k].d) =>
                        /\ EventsOf(id) =
                              EventsOfRule(id, PreBehaviors[id].s, k, RulesOf(id)[k].t)
                        /\ components["beh"][id].s = RulesOf(id)[k].t
                        /\ components["beh"][id].e = 0

\* C11, its case: a slime that has wandered for 2.9 s with the player less
\* than 5 away has re-entered state_wander, where the transition to
\* state_chase is satisfied.
C11_WanderedThreeSeconds ==
    /\ hist.op = "system_behavior"
    /\ 2 \in DOMAIN PreBehaviors
    /\ PreBehaviors[2].s = "state_wander"
    /\ PreBehaviors[2].e + hist.dt = 300
    /\ DistanceBelow(player_distance(hist.pre.components, player_id, 2), 5)
    /\ components["beh"][2].s = "state_wander"
    /\ Len(RulesFired(2)) = 1

\* C12: in one call of system_behavior an entity fires at most one
\* transition, and it is the first in its model's list among those from its
\* state whose condition is satisfied; a slime in state_chase that has been
\* there for 0.2 s with the player less than 1 away re-enters state_chase.
C12_FirstMatchWins ==
    hist.op = "system_behavior" =>
        \A id \in DOMAIN PreBehaviors :
            PreBehaviors[id].s # "undefined" =>
                /\ IF Matching(Evaluated(id), id) = {}
                   THEN RulesFired(id) = <<>>
                   ELSE /\ Len(RulesFired(id)) = 1
                        /\ \A k \in Matching(Evaluated(id), id) :
                              RulesFired(id)[1].rule <= k
                        /\ RulesFired(id)[1].rule \in Matching(Evaluated(id), id)
                /\ (/\ PreBehaviors[id].s = "state_chase"
                    /\ PreBehaviors[id].e + hist.dt >= 20
                    /\ DistanceBelow(player_distance(hist.pre.components, player_id, id), 1))
                   => components["beh"][id].s = "state_chase"

\* C12, its case: a slime in state_chase for 0.2 s with the player less than
\* 1 away has been through system_behavior: two of its transitions were
\* satisfied.
C12_ChaseTimedAndNear ==
    /\ hist.op = "system_behavior"
    /\ 2 \in DOMAIN PreBehaviors
    /\ PreBehaviors[2].s = "state_chase"
    /\ PreBehaviors[2].e + hist.dt >= 20
    /\ DistanceBelow(player_distance(hist.pre.components, player_id, 2), 1)
    /\ Cardinality(Matching(Evaluated(2), 2)) = 2

\* C13: when system_behavior runs while the player has no position, no
\* transition with a distance condition fires for any entity: every
\* transition that fires is a timed one.
C13_NoDistanceRuleWithoutPlayer ==
    (/\ hist.op = "system_behavior"
     /\ ~has_entity_component(hist.pre.components, player_id, "pos")) =>
        \A n \in 1..Len(hist.events) :
            hist.events[n].what = "rule" =>
                RulesOf(hist.events[n].id)[hist.events[n].rule].d # NoDuration

C15_FirstHitOnlyDamage ==
    AfterHazard =>
        \A m \in DOMAIN flog.touched.components["mor"] :
            components["mor"][m].h =
                flog.touched.components["mor"][m].h
                - DamageDue(m, IdsInOrder(HazardsFound))

\* C16: when system_hazard has run in a frame, a one-shot hazard it found
\* is despawned if and only if this frame's tick set its environment flag or
\* its bounding box overlapped that of a body it collides with; a hazard
\* that is not one-shot is not despawned.
C16_OneShotDespawnIffTouched ==
    AfterHazard =>
        \A z \in HazardsFound :
            ~has_entity_component(components, z, "haz")
                <=> /\ flog.touched.components["haz"][z].o = 1
                    /\ \/ flog.touched.components["body"][z].e = 1
                       \/ Overlapped(z) # {}

\* C18: a frame with a delta above 0.2 s calls no system and leaves the
\* store, the contact arrays, the spatial hash, the camera, game_state and
\* game_timer as it found them; a frame with a delta below 0.2 s has, when
\* it returns, called every system of the list once.
C18_OversizedFramesSkipped ==
    flog.frames > 0 =>
        /\ frame_dt > 20 =>
              /\ sys_index = 0
              /\ flog.ran = <<>>
              /\ Snapshot = flog.start
        /\ (frame_dt < 20 /\ sys_index = 0) =>
              \A n \in 1..Len(systems) : CallsOf(systems[n]) = 1

\* C18, its case: a frame that ran the systems was followed by a frame with
\* a delta of 0.3 s.
C18_OversizedFrameAfterPlay == flog.frames = 2 /\ frame_dt = 30 /\ hist.ticks = 1

\* C19: in a frame that runs the systems, the calls made so far of the
\* systems the order names are the beginning of that order (input, behavior,
\* physics, hazard, mortal, ttl, game, animation, tween, camera, render_map,
\* render_entities), and all of it when the frame returns.
C19_PipelineOrder ==
    LET order == <<"system_input", "system_behavior", "system_physics",
                   "system_hazard", "system_mortal", "system_ttl", "system_game",
                   "system_animation", "system_tween", "system_camera",
                   "system_render_map", "system_render_entities">>
        named == SelectSeq(flog.ran, LAMBDA r : r \in Range(order))
    IN (flog.frames > 0 /\ flog.entered) =>
          /\ Len(named) <= Len(order)
          /\ named = SubSeq(order, 1, Len(named))
          /\ sys_index = 0 => named = order

\* C19, its case: a frame has called all its systems and has returned.
C19_FrameRanAllSystems == FrameDone /\ Len(flog.ran) = Len(systems)

\* C17: a tick on a single body with zero velocity, whose bounding box lies
\* inside one open tile within the map, leaves the body's position and
\* velocity as they were; so do any number of ticks, one after another.
C17_NoMovementAtRest ==
    (/\ hist.op = "system_physics"
     /\ DOMAIN hist.phys.mid = {1}
     /\ hist.phys.pre["body"][1].vx = FZero
     /\ hist.phys.pre["body"][1].vy = FZero
     /\ StandsClear(hist.phys.mid[1])
     /\ Len(TilesUnder(hist.phys.mid[1])) = 1)
        => /\ components["pos"][1] = hist.phys.pre["pos"][1]
           /\ components["body"][1].vx = FZero
           /\ components["body"][1].vy = FZero

\* C20: after a physics tick, any two bodies whose groups collide, whose
\* bounding boxes overlapped in the narrow phase and of which one is a
\* trigger are in each other's contact list, and the pair is not among the
\* pairs the resolution phase separates.
C20_TriggersDetectNeverDisplace ==
    AfterTick =>
        \A a \in DOMAIN hist.phys.mid : \A b \in DOMAIN hist.phys.mid \ {a} :
            (/\ GroupsCollide(Bodies[a].g, Bodies[b].g)
             /\ rect_overlap(hist.phys.mid[a], hist.phys.mid[b])
             /\ Bodies[a].t = 1 \/ Bodies[b].t = 1)
                => /\ b \in Range(Contacts(a))
                   /\ a \in Range(Contacts(b))
                   /\ <<a, b>> \notin Range(hist.phys.pairs)

\* The collision groups a body may have
Groups == {GROUP_PLAYER, GROUP_ENEMY, GROUP_ENVIRONMENT}

\* The pair [a, b] or [b, a] is among the pairs the last tick resolved
Resolved(a, b) ==
    <<a, b>> \in Range(hist.phys.pairs) \/ <<b, a>> \in Range(hist.phys.pairs)

\* The unordered group pairs COLLISION_GROUPS declares, each as the set of
\* its groups
DeclaredPairs ==
    { {GROUP_PLAYER, GROUP_ENEMY}, {GROUP_ENEMY}, {GROUP_PLAYER, GROUP_ENVIRONMENT},
      {GROUP_ENEMY, GROUP_ENVIRONMENT}, {GROUP_ENVIRONMENT} }

\* C21: the group test gives the same answer for (g1, g2) and (g2, g1), the
\* answer being whether the unordered pair is declared, and after a physics
\* tick two bodies whose group pair is not declared in COLLISION_GROUPS are
\* not in each other's contact list and were not resolved as a pair,
\* whichever of the two has the smaller id (is iterated first).
C21_UndeclaredGroupsNeverCollide ==
    /\ \A g1 \in Groups : \A g2 \in Groups :
          /\ GroupsCollide(g1, g2) <=> GroupsCollide(g2, g1)
          /\ GroupsCollide(g1, g2) <=> {g1, g2} \in DeclaredPairs
    /\ AfterTick =>
          \A a \in DOMAIN Bodies : \A b \in DOMAIN Bodies :
              (a # b /\ {Bodies[a].g, Bodies[b].g} \notin DeclaredPairs) =>
                  /\ b \notin Range(Contacts(a))
                  /\ a \notin Range(Contacts(b))
                  /\ ~Resolved(a, b)

\* C21, its case: the narrow phase of the tick evaluated the player with a
\* bullet of the player (both GROUP_PLAYER) while their bounding boxes
\* overlapped.
C21_PlayerOverlappedOwnBullet ==
    /\ AfterTick
    /\ \E a \in DOMAIN Bodies : \E b \in DOMAIN Bodies :
          /\ Bodies[a].g = GROUP_PLAYER
          /\ Bodies[b].g = GROUP_PLAYER
          /\ Bodies[a].t # 1
          /\ Bodies[b].t = 1
          /\ rect_overlap(hist.phys.mid[a], hist.phys.mid[b])
          /\ <<a, b>> \in Range(hist.phys.evals)

\* The body of entity id as the last tick had it when it looked for tiles:
\* integrated and constrained to the map
Constrained(id) ==
    ConstrainY(ConstrainX(Moving(Integrate(hist.phys.pre["pos"][id],
                                           hist.phys.pre["body"][id], hist.phys.dt),
                                 hist.phys.pre["body"][id]),
                          hist.phys.pre["body"][id].b),
               hist.phys.pre["body"][id].b)

\* The list tiles the last tick filled for entity id
Detected(id) == DetectTiles(Constrained(id).bb)

\* C22: in the tile detection of a physics tick, a tile coordinate of the
\* bounding box's tile range that lies outside the map is ignored: it is not
\* taken for a wall tile, whatever the tiles of the grid are.
C22_OffMapTilesSkipped ==
    AfterTick =>
        \A id \in DOMAIN hist.phys.mid : \A k \in 1..Len(Detected(id)) :
            /\ Detected(id)[k].x >= 0
            /\ Detected(id)[k].x < map_width
            /\ Detected(id)[k].y >= 0
            /\ Detected(id)[k].y < map_height

\* The cells of the bucket grid that the bucket range of bb holds, in loop
\* order
GridCells(bb) ==
    SelectSeq(CellsInOrder(FloorBucket(bb.x), FloorBucket(bb.y),
                           FloorBucket(bb.x + bb.w), FloorBucket(bb.y + bb.h)),
              LAMBDA c : /\ c.x >= 0
                         /\ c.x < spatial_width
                         /\ c.y >= 0
                         /\ c.y < spatial_height)

\* The buckets of bb's cells on the grid, as indexes of spatial_tiles
GridIndexes(bb) == {idx(GridCells(bb)[k].x, GridCells(bb)[k].y, spatial_width) :
                        k \in 1..Len(GridCells(bb))}

RayStoppedRight ==
    /\ Len(ray.path) > 0
    /\ \A k \in 1..(Len(ray.path) - 1) :
          /\ ray.path[k].x \in 0..(map_width - 1)
          /\ ray.path[k].y \in 0..(map_height - 1)
          /\ map_tiles[idx(ray.path[k].x, ray.path[k].y, map_width) + 1] = 0
    /\ LET last == ray.path[Len(ray.path)]
       IN IF last.x \in 0..(map_width - 1) /\ last.y \in 0..(map_height - 1)
          THEN /\ ray.hit
               /\ map_tiles[idx(last.x, last.y, map_width) + 1] # 0
               /\ ray.v = map_tiles[idx(last.x, last.y, map_width) + 1]
          ELSE /\ ~ray.hit
               /\ ray.v = 1

\* C24: a call of raycast, from any of the origins and in any of the
\* directions (dx = 0, dy = 0 and both among them), makes at most
\* map_width + map_height jumps, returns, and has then stopped at the first
\* non-zero tile on its way or, off the map, with the tile value 1.
C24_RaycastTerminates ==
    /\ [](ray.pc # "idle" => Len(ray.path) <= map_width + map_height)
    /\ [](ray.pc = "done" => RayStoppedRight)
    /\ (ray.pc = "loop") ~> (ray.pc = "done")

\* C24, its case: a ray with dx = 0 has left the map after ten jumps or
\* more and has returned.
C24_VerticalRayLeftMap ==
    /\ ray.pc = "done"
    /\ ray.dx = 0
    /\ ray.dy # 0
    /\ ~ray.hit
    /\ Len(ray.path) >= 10

\* The state is the one a call of spawn_prefab_entity with recorded
\* arguments left
AfterSpawnCall == hist.op = "spawn_prefab_entity" /\ hist.pre # <<>>

\* The id the last call of spawn_prefab_entity returned
Spawned == hist.returned[Len(hist.returned)]

\* C25: spawn_prefab_entity(template, x, y, facing) leaves each of pos.x,
\* pos.y and pos.f at the passed value when that is non-zero and at the
\* template's value when it is 0; with the templates of PREFABS a spawn at
\* (0, 0, 0) leaves the position (0, 0, 0).
C25_SpawnPositionOverride ==
    AfterSpawnCall =>
        /\ Positions[Spawned].x =
              IF hist.pre.x # 0 THEN hist.pre.x ELSE PREFABS[hist.pre.prefabKey]["pos"].x
        /\ Positions[Spawned].y =
              IF hist.pre.y # 0 THEN hist.pre.y ELSE PREFABS[hist.pre.prefabKey]["pos"].y
        /\ Positions[Spawned].f =
              IF hist.pre.facing # 0 THEN hist.pre.facing
              ELSE PREFABS[hist.pre.prefabKey]["pos"].f
        /\ (hist.pre.x = 0 /\ hist.pre.y = 0 /\ hist.pre.facing = 0) =>
              Positions[Spawned] = [x |-> 0, y |-> 0, f |-> 0]

\* C25, its case: an entity was spawned with three non-zero arguments and
\* then another at (0, 0, 0).
C25_SpawnedAtZeroAndElsewhere ==
    /\ AfterSpawnCall
    /\ Spawned = 2
    /\ hist.pre.x = 0 /\ hist.pre.y = 0 /\ hist.pre.facing = 0
    /\ Positions[1].x # 0 /\ Positions[1].y # 0 /\ Positions[1].f # 0

\* The kinds of component the prefabs have, and one that none has
ComponentKinds == UNION {DOMAIN PREFABS[k] : k \in DOMAIN PREFABS} \cup {"none"}

\* The state is the one a call of remove_entity with recorded arguments left
AfterRemoveCall == hist.op = "remove_entity" /\ hist.pre # <<>>

\* C26: after remove_entity(id), get_entity_component(id, kind) is undefined
\* for every kind, also for a kind no entity has and for an id that was no
\* entity, and the records of every other entity are what they were.
C26_DespawnRemovesEverywhere ==
    AfterRemoveCall =>
        /\ \A kind \in ComponentKinds :
              get_entity_component(components, hist.pre.id, kind) = Undefined
        /\ \A other \in (1..next_entity_id) \ {hist.pre.id} : \A kind \in ComponentKinds :
              get_entity_component(components, other, kind) =
                  get_entity_component(hist.pre.components, other, kind)

\* C26, its case: remove_entity was called for an entity with a body while
\* another entity was there, which is there still.
C26_RemovedOneOfTwo ==
    /\ AfterRemoveCall
    /\ has_entity_component(hist.pre.components, hist.pre.id, "body")
    /\ has_entity_component(hist.pre.components, hist.pre.id, "pos")
    /\ EntityIds(components) # {}

\* C27: in every state, every entity id of the body mapping is an id of the
\* pos mapping.
C27_EveryBodyHasPosition == DOMAIN Bodies \subseteq DOMAIN Positions

\* C27, its case: a physics tick has moved bodies after entities were
\* spawned and one was despawned, and an entity with a position and no body
\* is there.
C27_TickedAfterDespawn ==
    /\ AfterTick
    /\ hist.despawned # {}
    /\ DOMAIN Bodies # {}
    /\ DOMAIN Positions \ DOMAIN Bodies # {}

\* components.ttl, empty when there is none, now and as the last system
\* found it
Ttls == IF "ttl" \in DOMAIN components THEN components["ttl"] ELSE NoGroup
PreTtls ==
    IF "ttl" \in DOMAIN hist.pre.components THEN hist.pre.components["ttl"] ELSE NoGroup

\* C28: a call of system_ttl(dt) takes dt from the remaining time of every
\* entity that has one and despawns those whose time is then 0 or less; so
\* after it every remaining time is above 0; and while frames with dt > 0
\* keep coming, the entities with a remaining time are all despawned in the
\* end.
C28_TtlCountsDownAndDespawns ==
    /\ [](hist.op = "system_ttl" =>
            /\ \A id \in DOMAIN Ttls : Ttls[id].d > 0
            /\ \A id \in DOMAIN PreTtls :
                  IF PreTtls[id].d - hist.dt <= 0
                  THEN id \notin EntityIds(components)
                  ELSE id \in DOMAIN Ttls /\ Ttls[id].d = PreTtls[id].d - hist.dt)
    /\ (DOMAIN Ttls # {}) ~> (DOMAIN Ttls = {})

\* C28, its case: a call of system_ttl has despawned one entity whose time
\* ran out and has left another with less time than it had.
C28_OneExpiredOneAged ==
    /\ hist.op = "system_ttl"
    /\ hist.dt > 0
    /\ \E id \in DOMAIN PreTtls : id \notin EntityIds(components)
    /\ \E id \in DOMAIN Ttls : Ttls[id].d < PreTtls[id].d

\* The component mapping each of the four systems loops over
PassKey ==
    [system_behavior |-> "beh", system_hazard |-> "haz", system_mortal |-> "mor",
     system_ttl |-> "ttl"]

\* The ids of the mapping the last system looped over, as it found it
PassStartIds ==
    IF PassKey[hist.op] \in DOMAIN hist.pre.components
    THEN DOMAIN hist.pre.components[PassKey[hist.op]]
    ELSE {}

\* C29: system_behavior, system_hazard, system_mortal and system_ttl each
\* run their loop body exactly once for every entity that was in their
\* mapping when the loop began, whatever the bodies spawn or despawn on the
\* way; a despawned entity is in no mapping, and no loop body runs for an
\* entity that was despawned before the loop began.
C29_PassVisitsStartSetOnce ==
    /\ hist.despawned \cap EntityIds(components) = {}
    /\ hist.op \in DOMAIN PassKey =>
          /\ hist.visited = IdsInOrder(PassStartIds)
          /\ \A n \in 1..Len(hist.visited) :
                \/ hist.visited[n] \notin hist.despawned
                \/ hist.visited[n] \in EntityIds(hist.pre.components)

\* C29, its case: a loop has despawned the entity of one entry and has gone
\* on to the entries after it.
C29_DespawnedBeforeLastEntry ==
    /\ hist.op \in DOMAIN PassKey
    /\ \E n \in 1..Len(hist.visited) :
          /\ n < Len(hist.visited)
          /\ hist.visited[n] \notin EntityIds(components)

\* Bodies a and b are together in some bucket of the spatial hash
ShareBucket(a, b) ==
    \E k \in 1..Len(spatial_tiles) :
        a \in Range(spatial_tiles[k]) /\ b \in Range(spatial_tiles[k])

\* C30: after a physics tick, any two bodies whose bounding boxes overlapped
\* when the movement phase ended are together in a bucket of the spatial
\* hash, and get_spatial_neighbors for the box of one returns the other; and
\* if their groups collide, each is in the other's contact list.
C30_OverlapsAllRecorded ==
    AfterTick =>
        \A a \in DOMAIN hist.phys.mid : \A b \in DOMAIN hist.phys.mid \ {a} :
            rect_overlap(hist.phys.mid[a], hist.phys.mid[b]) =>
                /\ ShareBucket(a, b)
                /\ b \in Range(get_spatial_neighbors(spatial_tiles, hist.phys.mid[a]))
                /\ GroupsCollide(Bodies[a].g, Bodies[b].g) =>
                      /\ b \in Range(Contacts(a))
                      /\ a \in Range(Contacts(b))

\* The overlap rectangle the resolution found for step s
StepRect(s) == rect_intersection(s.before.body_a.bb, s.before.body_b.bb)

\* Step s pushed along X and not along Y, each body by half of the overlap
\* width and the two in opposite directions, and changed vx only
PushedApartX(s, r) ==
    /\ s.after.pos_a.y = s.before.pos_a.y
    /\ s.after.pos_b.y = s.before.pos_b.y
    /\ 2 * Abs(s.after.pos_a.x - s.before.pos_a.x) = r.w
    /\ 2 * Abs(s.after.pos_b.x - s.before.pos_b.x) = r.w
    /\ r.w > 0 =>
          (s.after.pos_a.x - s.before.pos_a.x) * (s.after.pos_b.x - s.before.pos_b.x) < 0
    /\ s.after.body_a.vx = s.before.body_a.vx * (-s.before.body_a.b)
    /\ s.after.body_b.vx = s.before.body_b.vx * (-s.before.body_b.b)
    /\ s.after.body_a.vy = s.before.body_a.vy
    /\ s.after.body_b.vy = s.before.body_b.vy

\* The same along Y
PushedApartY(s, r) ==
    /\ s.after.pos_a.x = s.before.pos_a.x
    /\ s.after.pos_b.x = s.before.pos_b.x
    /\ 2 * Abs(s.after.pos_a.y - s.before.pos_a.y) = r.h
    /\ 2 * Abs(s.after.pos_b.y - s.before.pos_b.y) = r.h
    /\ r.h > 0 =>
          (s.after.pos_a.y - s.before.pos_a.y) * (s.after.pos_b.y - s.before.pos_b.y) < 0
    /\ s.after.body_a.vy = s.before.body_a.vy * (-s.before.body_a.b)
    /\ s.after.body_b.vy = s.before.body_b.vy * (-s.before.body_b.b)
    /\ s.after.body_a.vx = s.before.body_a.vx
    /\ s.after.body_b.vx = s.before.body_b.vx

\* C31: for each pair the resolution phase of a tick handles, both bodies
\* are moved along one axis only (X if the overlap is narrower than it is
\* high, else Y), each by half of the overlap on that axis and in opposite
\* directions, and then their bounding boxes do not overlap; the velocity of
\* each on that axis is multiplied by minus its bounce, the other is kept.
C31_PairsSplitApart ==
    AfterTick =>
        \A k \in 1..Len(hist.phys.steps) :
            /\ IF StepRect(hist.phys.steps[k]).w < StepRect(hist.phys.steps[k]).h
               THEN PushedApartX(hist.phys.steps[k], StepRect(hist.phys.steps[k]))
               ELSE PushedApartY(hist.phys.steps[k], StepRect(hist.phys.steps[k]))
            /\ ~rect_overlap(hist.phys.steps[k].after.body_a.bb,
                             hist.phys.steps[k].after.body_b.bb)

\* components.beh, empty when there is none
Behaviors == IF "beh" \in DOMAIN components THEN components["beh"] ELSE NoGroup

\* The events of entering the initial state, for an entity found in state s0
InitialEvents(id, s0) ==
    IF s0 = "undefined" /\ "e" \in StateHooks[BEHAVIORS[PreBehaviors[id].m].i]
    THEN <<BehaviorEvent(id, "enter", BEHAVIORS[PreBehaviors[id].m].i, 0)>>
    ELSE <<>>

\* The state the transitions of an entity found in state s0 are evaluated from
StartState(id, s0) == IF s0 = "undefined" THEN BEHAVIORS[PreBehaviors[id].m].i ELSE s0

\* The events of the transitions fired (with their hooks)
FiredEvents(id, s0, fired) ==
    IF fired = <<>> THEN <<>>
    ELSE EventsOfRule(id, StartState(id, s0), fired[1].rule, fired[1].state)

\* The event of the update hook of state s
UpdateEvents(id, s) ==
    IF "u" \in StateHooks[s] THEN <<BehaviorEvent(id, "update", s, 0)>> ELSE <<>>

\* The elapsed time an entity found with (s0, e0) has after dt
ElapsedAfter(s0, e0, dt, fired) ==
    IF fired # <<>> THEN 0 ELSE IF s0 = "undefined" THEN dt ELSE e0 + dt

\* C32: in a call of system_behavior, what happens for each entity is, in
\* this order: the enter hook of the model's initial state if the entity had
\* no state (its elapsed time set to 0), dt added to the elapsed time, at
\* most one transition (exit hook, new state, enter hook, elapsed time 0),
\* the update hook of the state it is then in, once; and an entity that has
\* a state never has none again, so the initial entry happens once.
C32_HooksInOrder ==
    /\ [](hist.op = "system_behavior" =>
            \A id \in DOMAIN PreBehaviors :
                /\ Len(RulesFired(id)) <= 1
                /\ EventsOf(id) =
                      InitialEvents(id, PreBehaviors[id].s)
                      \o FiredEvents(id, PreBehaviors[id].s, RulesFired(id))
                      \o UpdateEvents(id, components["beh"][id].s)
                /\ components["beh"][id].s # "undefined"
                /\ components["beh"][id].s =
                      IF RulesFired(id) # <<>> THEN RulesFired(id)[1].state
                      ELSE StartState(id, PreBehaviors[id].s)
                /\ components["beh"][id].e =
                      ElapsedAfter(PreBehaviors[id].s, PreBehaviors[id].e, hist.dt,
                                   RulesFired(id)))
    /\ [][\A id \in DOMAIN Behaviors \cap DOMAIN Behaviors' :
              Behaviors[id].s # "undefined" => Behaviors'[id].s # "undefined"]_vars

\* C32, its case: a call of system_behavior has found a slime with no state
\* and has left it in state_wander, entered, with elapsed time dt.
C32_InitialStateEntered ==
    /\ hist.op = "system_behavior"
    /\ 2 \in DOMAIN PreBehaviors
    /\ PreBehaviors[2].s = "undefined"
    /\ EventsOf(2) = <<BehaviorEvent(2, "enter", "state_wander", 0)>>
    /\ components["beh"][2].s = "state_wander"
    /\ components["beh"][2].e = hist.dt
    /\ hist.dt > 0

\* components.ani and components.sprite, empty when there is none, now and
\* as the last system found them
Animations == IF "ani" \in DOMAIN components THEN components["ani"] ELSE NoGroup
Sprites == IF "sprite" \in DOMAIN components THEN components["sprite"] ELSE NoGroup
PreAnimations ==
    IF "ani" \in DOMAIN hist.pre.components THEN hist.pre.components["ani"] ELSE NoGroup
PreSprites ==
    IF "sprite" \in DOMAIN hist.pre.components THEN hist.pre.components["sprite"]
    ELSE NoGroup

\* The active clip of the animation record anim: anim.f[anim.a]
ActiveClip(anim) == anim.f[anim.a + 1]

\* C33: in a call of system_animation, an animation whose elapsed time
\* reaches its delay has its cursor moved on by one in the active clip, to 0
\* from the clip's last frame, and the sprite is given the clip's frame at
\* the new cursor; one whose elapsed time stays below the delay keeps its
\* cursor, and the sprite keeps its frame.
C33_CursorAdvancesInClip ==
    hist.op = "system_animation" =>
        \A id \in DOMAIN PreAnimations :
            IF PreAnimations[id].e + hist.dt >= PreAnimations[id].d
            THEN /\ Animations[id].i =
                       IF PreAnimations[id].i = Len(ActiveClip(PreAnimations[id])) - 1
                       THEN 0 ELSE PreAnimations[id].i + 1
                 /\ Sprites[id].i = ActiveClip(Animations[id])[Animations[id].i + 1]
            ELSE /\ Animations[id].i = PreAnimations[id].i
                 /\ Sprites[id] = PreSprites[id]

\* C40: the cursor of every animation is a place in its active clip:
\* 0 <= i < length of f[a].
C40_CursorInActiveClip ==
    \A id \in DOMAIN Animations :
        /\ Animations[id].i >= 0
        /\ Animations[id].i < Len(ActiveClip(Animations[id]))

\* What the wall pass of this frame has written at column x: the d of the
\* ray of the column from where the camera is, and nothing if
\* system_render_map has not run in the frame
WallsThisFrame(x) ==
    IF \E k \in 1..Len(flog.ran) : flog.ran[k] = "system_render_map"
    THEN DepthsAt(DepthsFrom(camera_x, camera_y, camera_facing), x)
    ELSE {}

\* C34: when system_render_entities has run, every strip it has drawn of a
\* sprite is at a column x of the screen (0 <= x < CAMERA_WIDTH) at which
\* the sprite's depth ty is greater than 0 and less than what the wall pass
\* of the same frame has written to depth_buffer[x]; a sprite with ty <= 0
\* has no strip drawn.
C34_StripsBeforeWallsOnly ==
    hist.op = "system_render_entities" =>
        \A k \in 1..Len(hist.events) :
            /\ \A x \in hist.events[k].strips :
                  /\ SpriteDepth(components, hist.events[k].id) > 0
                  /\ x >= 0
                  /\ x < CAMERA_WIDTH
                  /\ \E d \in WallsThisFrame(x) :
                        DepthLess(SpriteDepth(components, hist.events[k].id), d)
            /\ SpriteDepth(components, hist.events[k].id) <= 0
                  => hist.events[k].strips = {}

\* system_render_entities has drawn strips of a sprite that a wall hides at
\* other columns of the screen, and has met a sprite that is not before the
\* camera
C34_SpriteHalfBehindWall ==
    /\ hist.op = "system_render_entities"
    /\ \E k \in 1..Len(hist.events) :
          /\ hist.events[k].strips # {}
          /\ ColumnsRead(components, hist.events[k].id) \ hist.events[k].strips # {}
    /\ \E k \in 1..Len(hist.events) : SpriteDepth(components, hist.events[k].id) <= 0

\* The steps of the cycle, and the states a timed step leaves
CycleSteps ==
    { <<"load", "load_outro">>, <<"load_outro", "title_intro">>,
      <<"title_intro", "title">>, <<"title", "title_outro">>,
      <<"title_outro", "play">>, <<"play", "play_outro">>,
      <<"play_outro", "lost_intro">>, <<"lost_intro", "lost">>,
      <<"lost", "lost_outro">>, <<"lost_outro", "load">> }

TimedStates ==
    {"load", "load_outro", "title_intro", "title_outro", "play_outro", "lost_intro",
     "lost_outro"}

\* C35: game_state changes only in a call of system_game, by one step of
\* the cycle load -> load_outro -> title_intro -> title -> title_outro ->
\* play -> play_outro -> lost_intro -> lost -> lost_outro -> load; the steps
\* from title and from lost are taken only with the space key down, and
\* every step from a timed state only with game_timer <= 0 after the
\* tick's decrement.
C35_FlowFollowsCycle ==
    [][game_state' # game_state =>
          /\ hist'.op = "system_game"
          /\ hist'.pre.game_state = game_state
          /\ <<game_state, game_state'>> \in CycleSteps
          /\ game_state \in {"title", "lost"} => hist'.pre.space
          /\ game_state \in TimedStates => hist'.pre.game_timer <= 0]_vars

\* A game has gone round the cycle: system_game has left lost_outro for load
C35_BackToLoad ==
    /\ hist.op = "system_game"
    /\ hist.pre.game_state = "lost_outro"
    /\ game_state = "load"

\* No entity exists: every component mapping is empty
NoEntity == \A key \in DOMAIN components : DOMAIN components[key] = {}

\* frame() has run the systems and has returned
TickEnded == sys_index = 0 /\ flog.frames > 0 /\ flog.entered

\* The player had a position when the tick began, in play, and has none now
PlayerDiedThisTick ==
    /\ TickEnded
    /\ flog.start.game_state = "play"
    /\ has_entity_component(flog.start.components, flog.start.player_id, "pos")
    /\ ~has_entity_component(components, flog.start.player_id, "pos")

\* C36: at the end of a tick of play in which the player was despawned,
\* game_state is "play_outro"; with frames that keep running the systems,
\* play_outro leads to lost; and in every state of the game other than play
\* and play_outro (they are entered through lost_intro, or are the first
\* states of the program) no entity exists.
C36_DeathEndsPlay ==
    /\ [](PlayerDiedThisTick => game_state = "play_outro")
    /\ (game_state = "play_outro") ~> (game_state = "lost")
    /\ [](game_state \notin {"play", "play_outro"} => NoEntity)

\* The game is lost: the player has been despawned, the lost screen is up and
\* no entity is left
C36_LostAfterDeath ==
    /\ game_state = "lost"
    /\ player_id \in hist.despawned
    /\ NoEntity

\* The wall tiles of the map that the rectangle bb overlaps, as (x, y)
WallsUnder(bb) ==
    {c \in (FloorTile(bb.x)..FloorTile(bb.x + bb.w))
              \X (FloorTile(bb.y)..FloorTile(bb.y + bb.h)) :
        /\ OnMap(c[1], c[2])
        /\ TileIsWall(idx(c[1], c[2], map_width))
        /\ rect_overlap(bb, TileBB(c[1], c[2]))}

\* C37: after a physics tick, the bounding box of no body that is not a
\* trigger overlaps a wall tile of the map (with an area above 0).
C37_NoBodyInWall ==
    AfterTick =>
        \A a \in DOMAIN Bodies : Bodies[a].t = 0 => WallsUnder(Bodies[a].bb) = {}

----------------------------------------------------------------------------
(* The attack of a slime *)

\* The state that follows each state of the attack
AttackNext ==
    [state_attack_windup |-> "state_attack", state_attack |-> "state_idle",
     state_idle |-> "state_chase"]

\* The damage triggers of the store: the entities of prefab dmg_enemy
DamageTriggers == {id \in DOMAIN Bodies : Bodies[id].c = "dmg_enemy"}

\* The slimes that go from state s to state t in this step
Going(s, t) ==
    {id \in DOMAIN Behaviors \cap DOMAIN Behaviors' :
        Behaviors[id].s = s /\ Behaviors'[id].s = t}

\* C38: a slime in attack-windup, attack or idle that is still there after a
\* step is left as it was by every step but a call of system_behavior(dt);
\* that call keeps it in its state with dt more elapsed while that is less
\* than 0.5 s (50), and otherwise takes it to the next state of windup -> attack
\* -> idle -> chase with 0 elapsed.  A step adds one damage trigger for each
\* slime that goes from windup to attack, and none besides.
C38_AttackSequence ==
    [][/\ \A id \in DOMAIN Behaviors \cap DOMAIN Behaviors' :
            Behaviors[id].s \in DOMAIN AttackNext =>
                \/ Behaviors'[id] = Behaviors[id]
                \/ /\ hist'.op = "system_behavior"
                   /\ Behaviors'[id].m = Behaviors[id].m
                   /\ IF Behaviors[id].e + hist'.dt < 50
                      THEN /\ Behaviors'[id].s = Behaviors[id].s
                           /\ Behaviors'[id].e = Behaviors[id].e + hist'.dt
                      ELSE /\ Behaviors'[id].s = AttackNext[Behaviors[id].s]
                           /\ Behaviors'[id].e = 0
       /\ Cardinality(DamageTriggers' \ DamageTriggers)
             = Cardinality(Going("state_attack_windup", "state_attack"))]_vars

\* A slime has gone through its attack: it is back in chase by the rule from
\* idle, and the one damage trigger of the attack is in the store
C38_AttackedOnce ==
    /\ hist.op = "system_behavior"
    /\ \E k \in 1..Len(hist.events) :
          /\ hist.events[k].what = "rule"
          /\ hist.events[k].state = "state_chase"
          /\ BEHAVIORS["slime"].t[hist.events[k].rule].f = "state_idle"
    /\ Cardinality(DamageTriggers) = 1

----------------------------------------------------------------------------
(* Hazards that fly or run out *)

\* components.haz, empty when there is none
Hazards == IF "haz" \in DOMAIN components THEN components["haz"] ELSE NoGroup

\* The ids the entities of a run of SpecHazard get: the player, the slime,
\* two bullets and the slime's damage trigger
HazardRunIds == 1..5

\* The one-shot hazards that move (a bullet) or have a time to live (a
\* damage trigger)
PassingHazards ==
    {id \in DOMAIN Hazards :
        /\ Hazards[id].o = 1
        /\ Bodies[id].vx # 0 \/ Bodies[id].vy # 0 \/ id \in DOMAIN Ttls}

\* The bounding box reaches over the boundary of the map or has got there:
\* what the map clamp tests, and what it leaves
AtBoundary(bb) ==
    \/ bb.x <= 0
    \/ bb.x + bb.w >= map_width * UNIT
    \/ bb.y <= 0
    \/ bb.y + bb.h >= map_height * UNIT

\* The wall tiles the bounding box has reached: those among the tiles its
\* corners lie in and the tiles between
WallsReached(bb) ==
    {c \in (FloorTile(bb.x)..FloorTile(bb.x + bb.w))
              \X (FloorTile(bb.y)..FloorTile(bb.y + bb.h)) :
        OnMap(c[1], c[2]) /\ TileIsWall(idx(c[1], c[2], map_width))}

\* C39: under frames that go on and run the systems with dt > 0, every
\* one-shot hazard that moves or has a time to live is despawned in the
\* end; when a frame is over, none is left that has reached a wall tile or
\* the boundary of the map, and none whose time to live has run out.
C39_HazardsDespawned ==
    /\ \A id \in HazardRunIds :
          (id \in PassingHazards) ~> (id \notin DOMAIN Positions)
    /\ [](next_entity_id - 1 \in HazardRunIds)
    /\ [](FrameDone /\ frame_dt > 0 =>
            \A id \in PassingHazards :
                /\ ~AtBoundary(Bodies[id].bb)
                /\ WallsReached(Bodies[id].bb) = {}
                /\ id \in DOMAIN Ttls => Ttls[id].d > 0)

\* A run with the slime is over a frame: two bullets and a damage trigger
\* were spawned, and none of them is left
C39_ThreeHazardsGone ==
    /\ FrameDone
    /\ 2 \in DOMAIN Positions
    /\ next_entity_id = 6
    /\ DOMAIN Hazards = {}

====
